---- MODULE Spec2Model ----
(***************************************************************************)
(* Real-time delivery subsystem of serengpty: the server-side connection   *)
(* registry of the SSE route (api/chat/sse/route.ts), its broadcast        *)
(* dispatcher and heartbeat, and the server actions that persist messages  *)
(* and push `message` / `conversations` events through the dispatcher,     *)
(* and the client subscriber (ChatService) with its reconnection timer.    *)
(*                                                                         *)
(* The server is a single JavaScript event loop: every action below is the *)
(* code that runs between two awaits (or one timer / event callback).      *)
(***************************************************************************)
EXTENDS Integers, Sequences, FiniteSets, TLC

\* ------------------------------------------------------------------ bounds
MaxConns == 2          \* stream-open requests (one ResponseSender closure each)
MaxLog == 2            \* write attempts recorded per Connection (registry runs)
MaxFrames == 5         \* write attempts recorded per Connection (chat runs)
MaxReqs == 2           \* server-action invocations (sendMessage / markAsRead)
MaxStreams == 2        \* streams already open when the server actions start
MaxStored == 3         \* rows of the Message table a recompute is applied to
MaxTime == 2           \* creation timestamps of those rows
MaxTimers == 2         \* timeouts of the subscriber pending at once
MaxCallbacks == 2      \* distinct listener functions of the application
MaxSubs == 2           \* listener registrations, and unsubscribe closures, held at once
MaxLists == 2          \* distinct conversation lists carried by events
MaxSends == 2          \* sendMessage calls of the client
MaxPeerSends == 1      \* messages the peer sends to the client's user
MaxLoads == 1          \* loadMessages calls of the provider
MaxTicks == 2          \* advances of the clock (5 s each)

\* --------------------------------------------------------------- constants
Users == {"a1", "b1"}
NoUser == "none"       \* getCurrentUser() resolved to null / no id
Conns == 1..MaxConns
ReqIds == 1..MaxReqs
Texts == {"hi"}
Null == 0              \* readAt IS NULL; timestamps are positive
StoreUsers == Users \cup {"c1"}   \* the users of the tables a recompute is applied to

VARIABLES
    connectedClients,  \* Map<userId, Set<ResponseSender>>: function on a subset of Users
    phase,             \* per request: "idle" | "auth" | "rejected" | "open" | "aborted"
    session,           \* per request: the user getCurrentUser() resolves to, or NoUser
    signalAborted,     \* per request: request.signal.aborted
    closed,            \* per stream: controller no longer accepts enqueue (it throws)
    heartbeatInterval, \* per stream: the setInterval handle is scheduled
    log,               \* per stream: the enqueue attempts, in order, with their outcome
    last,              \* what the call that just returned gave its caller
    messages,          \* the Message table, in insertion order
    now,               \* the database clock (ms)
    req,               \* per server-action invocation: its locals and position
    eventSource,       \* subscriber: "null", or the readyState of the EventSource it holds
    isConnected,       \* subscriber: this.isConnected
    reconnectTimer,    \* subscriber: this.reconnectTimer (a timeout id, or Null)
    reconnectAttempts, \* subscriber: this.reconnectAttempts
    autoReconnect,     \* subscriber: this.autoReconnect
    timers,            \* the browser's pending timeouts of the subscriber, by id
    sources,           \* the number of EventSource objects created and not closed
    messageListeners,  \* subscriber: Map<conversationId, MessageListener[]>
    conversationListeners,      \* subscriber: ConversationListener[]
    connectionStatusListeners,  \* subscriber: ConnectionStatusListener[]
    calls,             \* the listener invocations of the handler that ran last, in order
    handles,           \* the unsubscribe closures the application was given
    conversations,     \* ChatProvider: state.conversations
    thisConversations, \* message cache of the older ChatService: this.conversations
    stateMessages,     \* message cache of ChatProvider: state.messages
    currentConversation, \* ChatProvider: state.currentConversation
    sends,             \* the sendMessage calls of the client, with their position
    loads,             \* the loadMessages calls of the provider, with their position
    inbox,             \* `message` events written to the client's stream, not yet handled
    cacheLast,         \* the cache step that ran last
    clientLast         \* the subscriber handler that ran last, and what it found

regVars == <<connectedClients, phase, session, signalAborted, closed,
             heartbeatInterval, log, last>>
chatVars == <<messages, now, req>>
listenVars == <<messageListeners, conversationListeners, connectionStatusListeners,
                calls, handles, conversations>>
cacheVars == <<thisConversations, stateMessages, currentConversation, sends, loads,
               inbox, cacheLast>>
clientVars == <<eventSource, isConnected, reconnectTimer, reconnectAttempts,
                autoReconnect, timers, sources, clientLast, listenVars, cacheVars>>
vars == <<connectedClients, phase, session, signalAborted, closed,
          heartbeatInterval, log, last, messages, now, req,
          eventSource, isConnected, reconnectTimer, reconnectAttempts,
          autoReconnect, timers, sources, clientLast, listenVars, cacheVars>>

\* ------------------------------------------------------------- the registry
\* connectedClients.get(userId), as a set ({} when the key is absent)
Bucket(reg, u) == IF u \in DOMAIN reg THEN reg[u] ELSE {}

\* connectedClients.has(userId)
Has(reg, u) == u \in DOMAIN reg

\* the function reg without key u
MapDelete(reg, u) == [k \in (DOMAIN reg) \ {u} |-> reg[k]]

\* the function reg with reg[u] = s
MapSet(reg, u, s) == [k \in (DOMAIN reg) \cup {u} |-> IF k = u THEN s ELSE reg[k]]

\* every Connection held by some bucket
Registered(reg) == UNION {reg[u] : u \in DOMAIN reg}

cleanupClient_KeepEmpty(reg, u, c) ==
    IF Has(reg, u) THEN MapSet(reg, u, reg[u] \ {c}) ELSE reg

cleanupClient_DropBucket(reg, u, c) ==
    IF Has(reg, u) THEN MapDelete(reg, u) ELSE reg

cleanupClient_Nothing(reg, u, c) == reg

\* function cleanupClient(userId, sendMessage)
cleanupClient(reg, u, c) ==
    IF Has(reg, u)
    THEN LET rest == reg[u] \ {c}
         IN  IF rest = {} THEN MapDelete(reg, u) ELSE MapSet(reg, u, rest)
    ELSE reg

\* ---------------------------------------------------- the ResponseSender
\* controller.enqueue throws once the stream is closed
EnqueueThrows(c) == closed[c]

sendMessage_NoCleanup(reg, c) ==
    [reg |-> reg, wrote |-> ~EnqueueThrows(c), threw |-> FALSE]

\* const sendMessage = (data) => { try { enqueue } catch { cleanupClient } }
\* the registry after the call, whether the frame was enqueued, whether the
\* call threw to its caller
sendMessage(reg, c) ==
    IF EnqueueThrows(c)
    THEN [reg |-> cleanupClient(reg, session[c], c), wrote |-> FALSE, threw |-> FALSE]
    ELSE [reg |-> reg, wrote |-> TRUE, threw |-> FALSE]

\* one entry of a stream's log
\* by: the server-action invocation that pushed it (0: the route itself)
Attempt(ev, ok, by) == [ev |-> ev, ok |-> ok, by |-> by]

\* the frames the client of stream c received
Received(c) == SelectSeq(log[c], LAMBDA a : a.ok)

\* the last element of a non-empty sequence
Last(q) == q[Len(q)]

\* some write to stream c failed
HasFailedWrite(lg) == \E i \in 1..Len(lg) : ~lg[i].ok

\* ------------------------------------------------------------ the dispatcher
\* Array.from(set): a Set iterates in insertion order; closures are inserted
\* in the order the requests are numbered and are never inserted twice
RECURSIVE ArrayFrom(_)
ArrayFrom(S) ==
    IF S = {} THEN <<>>
    ELSE LET m == CHOOSE x \in S : \A y \in S : x <= y
         IN  <<m>> \o ArrayFrom(S \ {m})

\* for (const sendMessage of clientsArray) { try { sendMessage(..); successCount++ }
\*                                           catch { cleanupClient(userId, sendMessage) } }
RECURSIVE SendLoop(_, _, _)
SendLoop(acc, arr, u) ==
    IF arr = <<>> THEN acc
    ELSE LET c == Head(arr)
             r == sendMessage(acc.reg, c)
         IN  IF r.threw
             THEN SendLoop([acc EXCEPT !.reg = cleanupClient(r.reg, u, c),
                                       !.attempted = @ \cup {c}],
                           Tail(arr), u)
             ELSE SendLoop([acc EXCEPT !.reg = r.reg,
                                       !.attempted = @ \cup {c},
                                       !.wrote = IF r.wrote THEN @ \cup {c} ELSE @,
                                       !.successCount = @ + 1],
                           Tail(arr), u)

\* export async function sendMessageToUser(userId, message): no await inside,
\* so the whole body runs in one turn of the event loop
sendMessageToUser(reg, u) ==
    LET clients == Bucket(reg, u)
    IN  IF ~Has(reg, u) \/ Cardinality(clients) = 0
        THEN [reg |-> reg, attempted |-> {}, wrote |-> {}, successCount |-> 0,
              result |-> FALSE, threw |-> FALSE]
        ELSE LET acc == SendLoop([reg |-> reg, attempted |-> {}, wrote |-> {},
                                  successCount |-> 0], ArrayFrom(clients), u)
             IN  [reg |-> acc.reg, attempted |-> acc.attempted, wrote |-> acc.wrote,
                  successCount |-> acc.successCount,
                  result |-> acc.successCount > 0, threw |-> FALSE]

\* the logs after event ev was offered to the streams in attempted
LogAfter(lg, ev, attempted, wrote, by) ==
    [c \in Conns |-> IF c \in attempted
                     THEN Append(lg[c], Attempt(ev, c \in wrote, by))
                     ELSE lg[c]]

\* every stream of the bucket still has room in its log (model bound)
Room(reg, u) == \A c \in Bucket(reg, u) : Len(log[c]) < MaxLog

\* the record of an operation that ran
Op(name, who, r) ==
    [op |-> name, who |-> who, attempted |-> r.attempted, wrote |-> r.wrote,
     result |-> r.result, threw |-> r.threw]

NoSend == [attempted |-> {}, wrote |-> {}, result |-> FALSE, threw |-> FALSE]

\* no call has just returned to a caller
Idle == Op("none", 0, NoSend)

\* ------------------------------------------------------------ the SSE route
Authorized_Always(s) == TRUE

\* if (!currentUser?.id) return 401
Authorized(s) == s # NoUser

\* a GET arrives; the handler awaits getCurrentUser()
GetRequest(c) ==
    /\ phase[c] = "idle"
    /\ \A d \in Conns : d < c => phase[d] # "idle"
    /\ \E s \in Users \cup {NoUser} : session' = [session EXCEPT ![c] = s]
    /\ phase' = [phase EXCEPT ![c] = "auth"]
    /\ last' = Idle
    /\ UNCHANGED clientVars
    /\ UNCHANGED <<connectedClients, signalAborted, closed, heartbeatInterval, log, chatVars>>

GetResume_Replay(c) ==
    /\ phase[c] = "auth"
    /\ IF ~Authorized(session[c])
       THEN /\ phase' = [phase EXCEPT ![c] = "rejected"]
            /\ last' = Op("GET401", c, NoSend)
            /\ UNCHANGED clientVars
            /\ UNCHANGED <<connectedClients, heartbeatInterval, log>>
       ELSE LET u == session[c]
                reg1 == IF ~Has(connectedClients, u)
                        THEN MapSet(connectedClients, u, {})
                        ELSE connectedClients
                reg2 == MapSet(reg1, u, reg1[u] \cup {c})
                r == sendMessage(reg2, c)
                missed == SelectSeq(messages, LAMBDA m : m.receiverId = u)
                queued == [i \in 1..Len(missed) |->
                              [ev |-> [type |-> "message", message |-> missed[i]],
                               ok |-> r.wrote, by |-> missed[i].id]]
            IN  /\ connectedClients' = r.reg
                /\ log' = [log EXCEPT ![c] =
                              Append(@, [ev |-> [type |-> "connected"], ok |-> r.wrote,
                                         by |-> 0]) \o queued]
                /\ heartbeatInterval' = [heartbeatInterval EXCEPT ![c] = TRUE]
                /\ phase' = [phase EXCEPT ![c] = "open"]
                /\ last' = Idle
                /\ UNCHANGED clientVars
    /\ UNCHANGED <<session, signalAborted, closed, chatVars>>

\* getCurrentUser() resolved: 401, or the stream's start(controller) runs
GetResume(c) ==
    /\ phase[c] = "auth"
    /\ IF ~Authorized(session[c])
       THEN /\ phase' = [phase EXCEPT ![c] = "rejected"]
            /\ last' = Op("GET401", c, NoSend)
            /\ UNCHANGED clientVars
            /\ UNCHANGED <<connectedClients, heartbeatInterval, log>>
       ELSE LET u == session[c]
                reg1 == IF ~Has(connectedClients, u)
                        THEN MapSet(connectedClients, u, {})
                        ELSE connectedClients
                reg2 == MapSet(reg1, u, reg1[u] \cup {c})
                r == sendMessage(reg2, c)
            IN  /\ connectedClients' = r.reg
                /\ log' = [log EXCEPT ![c] = Append(@, Attempt([type |-> "connected"], r.wrote, 0))]
                /\ heartbeatInterval' = [heartbeatInterval EXCEPT ![c] = TRUE]
                /\ phase' = [phase EXCEPT ![c] = "open"]
                /\ last' = Idle
                /\ UNCHANGED clientVars
    /\ UNCHANGED <<session, signalAborted, closed, chatVars>>

\* setInterval callback: try { sendMessage(heartbeat) } catch { clearInterval; cleanupClient }
Heartbeat(c) ==
    /\ heartbeatInterval[c]
    /\ Len(log[c]) < MaxLog
    /\ LET r == sendMessage(connectedClients, c)
       IN  /\ connectedClients' = IF r.threw
                                  THEN cleanupClient(r.reg, session[c], c)
                                  ELSE r.reg
           /\ heartbeatInterval' = IF r.threw
                                   THEN [heartbeatInterval EXCEPT ![c] = FALSE]
                                   ELSE heartbeatInterval
           /\ log' = [log EXCEPT ![c] = Append(@, Attempt([type |-> "heartbeat"], r.wrote, 0))]
    /\ last' = Idle
    /\ UNCHANGED clientVars
    /\ UNCHANGED <<phase, session, signalAborted, closed, chatVars>>

AbortListener_NoCleanup(c) ==
    /\ heartbeatInterval' = [heartbeatInterval EXCEPT ![c] = FALSE]
    /\ UNCHANGED connectedClients

\* request.signal.addEventListener('abort', () => { clearInterval; cleanupClient })
AbortListener(c) ==
    /\ heartbeatInterval' = [heartbeatInterval EXCEPT ![c] = FALSE]
    /\ connectedClients' = cleanupClient(connectedClients, session[c], c)

\* the client goes away: request.signal fires 'abort' (once); the listener
\* exists only once start() has run
Abort(c) ==
    /\ phase[c] \in {"auth", "open"}
    /\ ~signalAborted[c]
    /\ signalAborted' = [signalAborted EXCEPT ![c] = TRUE]
    /\ IF phase[c] = "open"
       THEN /\ AbortListener(c)
            /\ phase' = [phase EXCEPT ![c] = "aborted"]
       ELSE UNCHANGED <<heartbeatInterval, connectedClients, phase>>
    /\ last' = Idle
    /\ UNCHANGED clientVars
    /\ UNCHANGED <<session, closed, log, chatVars>>

\* the response stream is cancelled or errors: enqueue throws from now on
StreamClose(c) ==
    /\ phase[c] = "open"
    /\ ~closed[c]
    /\ closed' = [closed EXCEPT ![c] = TRUE]
    /\ last' = Idle
    /\ UNCHANGED clientVars
    /\ UNCHANGED <<connectedClients, phase, session, signalAborted, heartbeatInterval, log, chatVars>>

\* some server code calls sendMessageToUser(u, ev)
Broadcast(u, ev) ==
    /\ Room(connectedClients, u)
    /\ LET r == sendMessageToUser(connectedClients, u)
       IN  /\ connectedClients' = r.reg
           /\ log' = LogAfter(log, ev, r.attempted, r.wrote, 0)
           /\ last' = Op("broadcast", u, r)
           /\ UNCHANGED clientVars
    /\ UNCHANGED <<phase, session, signalAborted, closed, heartbeatInterval, chatVars>>


\* ------------------------------------------------------- the message store
\* the payload form of a stored row ({id, sender_id, receiver_id, text, created_at, read_at})
Format(m) ==
    [id |-> m.id, sender_id |-> m.senderId, receiver_id |-> m.receiverId,
     text |-> m.text, created_at |-> m.createdAt, read_at |-> m.readAt]

\* CASE WHEN m."senderId" = userId THEN m."receiverId" ELSE m."senderId" END
Peer(m, u) == IF m.senderId = u THEN m.receiverId ELSE m.senderId

\* WHERE m."senderId" = userId OR m."receiverId" = userId
Mine(store, u) ==
    {i \in DOMAIN store : store[i].senderId = u \/ store[i].receiverId = u}

\* one partition of RankedMessages
Group(store, u, p) == {i \in Mine(store, u) : Peer(store[i], u) = p}

RankedFirst_Oldest(store, u, p) ==
    {i \in Group(store, u, p) :
        \A j \in Group(store, u, p) : store[j].createdAt >= store[i].createdAt}

\* the rows of a partition that ROW_NUMBER() ... ORDER BY "createdAt" DESC may
\* number 1: the order among equal timestamps is the database's choice
RankedFirst(store, u, p) ==
    {i \in Group(store, u, p) :
        \A j \in Group(store, u, p) : store[j].createdAt <= store[i].createdAt}

UnreadCount_Either(store, u, p) ==
    Cardinality({i \in DOMAIN store : /\ {store[i].senderId, store[i].receiverId} = {u, p}
                                      /\ store[i].readAt = Null})

UnreadCount_FromMe(store, u, p) ==
    Cardinality({i \in DOMAIN store : /\ store[i].senderId = u
                                      /\ store[i].receiverId = p
                                      /\ store[i].readAt = Null})

\* SELECT COUNT(*) FROM "Message" unread WHERE senderId = peer AND receiverId = userId
\*   AND readAt IS NULL
UnreadCount(store, u, p) ==
    Cardinality({i \in DOMAIN store : /\ store[i].senderId = p
                                      /\ store[i].receiverId = u
                                      /\ store[i].readAt = Null})

\* one element of the mapped result
Conversation(store, u, i) ==
    [user |-> Peer(store[i], u),
     lastMessage |-> Format(store[i]),
     unreadCount |-> UnreadCount(store, u, Peer(store[i], u))]

updateConversationsForUserInternal_AllRows(store, u) ==
    LET M == Mine(store, u)
        n == Cardinality(M)
        o == CHOOSE f \in [1..n -> M] : \A j, k \in 1..n : j < k => f[j] > f[k]
    IN  {[k \in 1..n |-> Conversation(store, u, o[k])]}

\* updateConversationsForUserInternal(userId, tx): every list the query may
\* return on this store (rn = 1 per partition, ORDER BY "createdAt" DESC)
updateConversationsForUserInternal(store, u) ==
    LET P == {Peer(store[i], u) : i \in Mine(store, u)}
        n == Cardinality(P)
        Picks == {f \in [P -> DOMAIN store] : \A p \in P : f[p] \in RankedFirst(store, u, p)}
        Orders(f) == {o \in [1..n -> P] :
                        /\ \A j, k \in 1..n : j # k => o[j] # o[k]
                        /\ \A k \in 1..(n - 1) :
                              store[f[o[k]]].createdAt >= store[f[o[k + 1]]].createdAt}
    IN  UNION {{[k \in 1..n |-> Conversation(store, u, f[o[k]])] : o \in Orders(f)} :
               f \in Picks}

\* ------------------------------------------------------ the server actions
\* the locals of an invocation: kind, position, currentUserId (user),
\* receiverId / otherUserId (peer), the created row (msg), senderConvs /
\* currentUserConvs (convsUser), receiverConvs / otherUserConvs (convsPeer);
\* at: the table as the invocation's insert left it
NoReq ==
    [kind |-> "none", pc |-> "idle", user |-> NoUser, peer |-> NoUser, msg |-> 0,
     convsUser |-> <<>>, convsPeer |-> <<>>, result |-> FALSE,
     at |-> <<>>]

\* the invocation has returned to its caller; its locals are gone
Returned(kind, result) == [NoReq EXCEPT !.kind = kind, !.pc = "done", !.result = result]

\* await Promise.all([sendMessageToUser(a, evA), sendMessageToUser(b, evB)]):
\* both calls run, in this order, before the await yields
PushBoth(reg, lg, a, evA, b, evB, by) ==
    LET r1 == sendMessageToUser(reg, a)
        lg1 == LogAfter(lg, evA, r1.attempted, r1.wrote, by)
        r2 == sendMessageToUser(r1.reg, b)
        lg2 == LogAfter(lg1, evB, r2.attempted, r2.wrote, by)
    IN  [reg |-> r2.reg, log |-> lg2]

\* the logs stay within the model bound
Fits(lg) == \A c \in Conns : Len(lg[c]) <= MaxFrames

\* invocation r can start now (model bounds; invocations are numbered in
\* the order they start)
CanStart(r) ==
    /\ req[r].pc = "idle"
    /\ \A q \in ReqIds : q < r => req[q].pc # "idle"

\* sendMessage(receiverId, text), up to `await prisma.message.create(...)`
SendCreate(r, a, b, text) ==
    /\ CanStart(r)
    /\ \E t \in {now, now + 1} \ {Null} :
         /\ now' = t
         /\ messages' = Append(messages,
                [id |-> Len(messages) + 1, senderId |-> a, receiverId |-> b,
                 text |-> text, createdAt |-> t, readAt |-> Null])
    /\ req' = [req EXCEPT ![r] =
                 [NoReq EXCEPT !.kind = "send", !.pc = "created", !.user = a, !.peer = b,
                               !.msg = Len(messages) + 1,
                               !.at = messages']]
    /\ last' = Idle
    /\ UNCHANGED clientVars
    /\ UNCHANGED <<connectedClients, phase, session, signalAborted, closed,
                   heartbeatInterval, log>>

\* the first query of Promise.all([updateConversationsForUserInternal(currentUserId, tx), ...])
RecomputeUser(r) ==
    /\ req[r].pc \in {"created", "updated"}
    /\ \E cv \in updateConversationsForUserInternal(messages, req[r].user) :
         req' = [req EXCEPT ![r].convsUser = cv, ![r].pc = "computedUser"]
    /\ last' = Idle
    /\ UNCHANGED clientVars
    /\ UNCHANGED <<connectedClients, phase, session, signalAborted, closed,
                   heartbeatInterval, log, messages, now>>

\* the second query of Promise.all([..., updateConversationsForUserInternal(receiverId, tx)])
RecomputePeer(r) ==
    /\ req[r].pc = "computedUser"
    /\ \E cv \in updateConversationsForUserInternal(messages, req[r].peer) :
         req' = [req EXCEPT ![r].convsPeer = cv, ![r].pc = "computed"]
    /\ last' = Idle
    /\ UNCHANGED clientVars
    /\ UNCHANGED <<connectedClients, phase, session, signalAborted, closed,
                   heartbeatInterval, log, messages, now>>

\* sendMessage: await Promise.all([sendMessageToUser(currentUserId, messagePayload),
\*                                 sendMessageToUser(receiverId, messagePayload)])
SendPushMessage(r) ==
    /\ req[r].kind = "send"
    /\ req[r].pc = "computed"
    /\ LET ev == [type |-> "message",
                  message |-> [Format(messages[req[r].msg]) EXCEPT !.read_at = Null]]
           p == PushBoth(connectedClients, log, req[r].user, ev, req[r].peer, ev, r)
       IN  /\ Fits(p.log)
           /\ connectedClients' = p.reg
           /\ log' = p.log
    /\ req' = [req EXCEPT ![r].pc = "pushed"]
    /\ last' = Idle
    /\ UNCHANGED clientVars
    /\ UNCHANGED <<phase, session, signalAborted, closed, heartbeatInterval, messages, now>>

\* the conversations pushes that end sendMessage and markAsRead
PushConversations(r) ==
    LET p == PushBoth(connectedClients, log,
                      req[r].user, [type |-> "conversations", conversations |-> req[r].convsUser],
                      req[r].peer, [type |-> "conversations", conversations |-> req[r].convsPeer],
                      r)
    IN  /\ Fits(p.log)
        /\ connectedClients' = p.reg
        /\ log' = p.log
        /\ req' = [req EXCEPT ![r] = Returned(req[r].kind, TRUE)]
        /\ last' = Idle
        /\ UNCHANGED clientVars
        /\ UNCHANGED <<phase, session, signalAborted, closed, heartbeatInterval,
                       messages, now>>

\* sendMessage: the second Promise.all, then return formattedMessage
SendPushConversations(r) ==
    /\ req[r].kind = "send"
    /\ req[r].pc = "pushed"
    /\ PushConversations(r)

MarkAsReadUpdate_Restamp(r, u, p) ==
    /\ CanStart(r)
    /\ LET hit == {i \in DOMAIN messages : /\ messages[i].senderId = p
                                           /\ messages[i].receiverId = u}
       IN  \E t \in {now, now + 1} \ {Null} :
             /\ now' = t
             /\ messages' = [i \in DOMAIN messages |->
                               IF i \in hit THEN [messages[i] EXCEPT !.readAt = t]
                               ELSE messages[i]]
             /\ req' = [req EXCEPT ![r] =
                          IF hit = {}
                          THEN Returned("read", FALSE)
                          ELSE [NoReq EXCEPT !.kind = "read", !.user = u, !.peer = p,
                                             !.pc = "updated"]]
    /\ last' = Idle
    /\ UNCHANGED clientVars
    /\ UNCHANGED <<connectedClients, phase, session, signalAborted, closed,
                   heartbeatInterval, log>>

MarkAsReadUpdate_OneRow(r, u, p) ==
    /\ CanStart(r)
    /\ LET all == {i \in DOMAIN messages : /\ messages[i].senderId = p
                                           /\ messages[i].receiverId = u
                                           /\ messages[i].readAt = Null}
           hit == {i \in all : \A j \in all : i <= j}
       IN  \E t \in {now, now + 1} \ {Null} :
             /\ now' = t
             /\ messages' = [i \in DOMAIN messages |->
                               IF i \in hit THEN [messages[i] EXCEPT !.readAt = t]
                               ELSE messages[i]]
             /\ req' = [req EXCEPT ![r] =
                          IF hit = {}
                          THEN Returned("read", FALSE)
                          ELSE [NoReq EXCEPT !.kind = "read", !.user = u, !.peer = p,
                                             !.pc = "updated"]]
    /\ last' = Idle
    /\ UNCHANGED clientVars
    /\ UNCHANGED <<connectedClients, phase, session, signalAborted, closed,
                   heartbeatInterval, log>>

MarkAsReadUpdate_NoEarlyReturn(r, u, p) ==
    /\ CanStart(r)
    /\ LET hit == {i \in DOMAIN messages : /\ messages[i].senderId = p
                                           /\ messages[i].receiverId = u
                                           /\ messages[i].readAt = Null}
       IN  \E t \in {now, now + 1} \ {Null} :
             /\ now' = t
             /\ messages' = [i \in DOMAIN messages |->
                               IF i \in hit THEN [messages[i] EXCEPT !.readAt = t]
                               ELSE messages[i]]
             /\ req' = [req EXCEPT ![r] =
                          [NoReq EXCEPT !.kind = "read", !.user = u, !.peer = p,
                                        !.pc = "updated"]]
    /\ last' = Idle
    /\ UNCHANGED clientVars
    /\ UNCHANGED <<connectedClients, phase, session, signalAborted, closed,
                   heartbeatInterval, log>>

\* markAsRead(otherUserId): prisma.message.updateMany(...); return false if count = 0
MarkAsReadUpdate(r, u, p) ==
    /\ CanStart(r)
    /\ LET hit == {i \in DOMAIN messages : /\ messages[i].senderId = p
                                           /\ messages[i].receiverId = u
                                           /\ messages[i].readAt = Null}
       IN  \E t \in {now, now + 1} \ {Null} :
             /\ now' = t
             /\ messages' = [i \in DOMAIN messages |->
                               IF i \in hit THEN [messages[i] EXCEPT !.readAt = t]
                               ELSE messages[i]]
             /\ req' = [req EXCEPT ![r] =
                          IF hit = {}
                          THEN Returned("read", FALSE)
                          ELSE [NoReq EXCEPT !.kind = "read", !.user = u, !.peer = p,
                                             !.pc = "updated"]]
    /\ last' = Idle
    /\ UNCHANGED clientVars
    /\ UNCHANGED <<connectedClients, phase, session, signalAborted, closed,
                   heartbeatInterval, log>>

MarkAsReadPushConversations_Silent(r) ==
    /\ req[r].kind = "read"
    /\ req[r].pc = "computed"
    /\ req' = [req EXCEPT ![r] = Returned("read", TRUE)]
    /\ last' = Idle
    /\ UNCHANGED clientVars
    /\ UNCHANGED <<connectedClients, phase, session, signalAborted, closed,
                   heartbeatInterval, log, messages, now>>

\* markAsRead: the Promise.all of pushes, then return true
MarkAsReadPushConversations(r) ==
    /\ req[r].kind = "read"
    /\ req[r].pc = "computed"
    /\ PushConversations(r)

TestEvents == {[type |-> "message"]}

\* no unsubscribe closure
NoHandle == [kind |-> "none", key |-> "none", listener |-> 0]

\* no event
NoEvent == [type |-> "none", sender_id |-> "none", receiver_id |-> "none", conversations |-> Null]

\* no cache step
NoStep == [op |-> "none", i |-> 0]

\* the caches before the provider has opened a conversation
CacheIdle ==
    /\ thisConversations = << >>
    /\ stateMessages = << >>
    /\ currentConversation = "null"
    /\ sends = << >>
    /\ loads = << >>
    /\ inbox = << >>
    /\ cacheLast = NoStep

\* a ChatService instance right after construction (field initialisers)
ClientIdle ==
    /\ CacheIdle
    /\ eventSource = "null"
    /\ isConnected = FALSE
    /\ reconnectTimer = Null
    /\ reconnectAttempts = 0
    /\ autoReconnect = TRUE
    /\ timers = << >>
    /\ sources = 0
    /\ messageListeners = << >>
    /\ conversationListeners = << >>
    /\ connectionStatusListeners = << >>
    /\ calls = << >>
    /\ handles = {}
    /\ conversations = Null
    /\ clientLast = [op |-> "none", was |-> 0, src |-> "null", pend |-> {}, h |-> NoHandle, ev |-> NoEvent]

InitRegistry ==
    /\ ClientIdle
    /\ connectedClients = << >>
    /\ phase = [c \in Conns |-> "idle"]
    /\ session = [c \in Conns |-> NoUser]
    /\ signalAborted = [c \in Conns |-> FALSE]
    /\ closed = [c \in Conns |-> FALSE]
    /\ heartbeatInterval = [c \in Conns |-> FALSE]
    /\ log = [c \in Conns |-> <<>>]
    /\ last = Idle
    /\ messages = <<>>
    /\ now = 0
    /\ req = [r \in ReqIds |-> NoReq]

Init == InitRegistry

Next ==
    \/ \E c \in Conns : GetRequest(c)
    \/ \E c \in Conns : GetResume(c)
    \/ \E c \in Conns : Heartbeat(c)
    \/ \E c \in Conns : Abort(c)
    \/ \E c \in Conns : StreamClose(c)
    \/ \E u \in Users, ev \in TestEvents : Broadcast(u, ev)

Spec == Init /\ [][Next]_vars

\* the first MaxStreams requests were answered with a stream (GET, 200), one
\* of them by a1, and nothing was written since
OpenAs(ss) ==
    LET open == DOMAIN ss
    IN  /\ session = [c \in Conns |-> IF c \in open THEN ss[c] ELSE NoUser]
        /\ phase = [c \in Conns |-> IF c \in open THEN "open" ELSE "idle"]
        /\ connectedClients = [u \in {ss[c] : c \in open} |-> {c \in open : ss[c] = u}]
        /\ signalAborted = [c \in Conns |-> FALSE]
        /\ closed = [c \in Conns |-> FALSE]
        /\ heartbeatInterval = [c \in Conns |-> c \in open]
        /\ log = [c \in Conns |-> IF c \in open
                                  THEN <<Attempt([type |-> "connected"], TRUE, 0)>>
                                  ELSE <<>>]

\* the chat server with some streams open and an empty message table
InitChat ==
    /\ ClientIdle
    /\ \E ss \in [(1..MaxStreams) \cap Conns -> Users] :
          (\A c \in DOMAIN ss : c = 1 => ss[c] = "a1") /\ OpenAs(ss)
    /\ last = Idle
    /\ messages = <<>>
    /\ now = 0
    /\ req = [r \in ReqIds |-> NoReq]

\* server actions between two distinct users run while streams break
NextChat ==
    \/ \E c \in Conns : StreamClose(c)
    \/ \E r \in ReqIds, a, b \in Users, text \in Texts : a # b /\ SendCreate(r, a, b, text)
    \/ \E r \in ReqIds : RecomputeUser(r)
    \/ \E r \in ReqIds : RecomputePeer(r)
    \/ \E r \in ReqIds : SendPushMessage(r)
    \/ \E r \in ReqIds : SendPushConversations(r)
    \/ \E r \in ReqIds, u, p \in Users : u # p /\ MarkAsReadUpdate(r, u, p)
    \/ \E r \in ReqIds : MarkAsReadPushConversations(r)

SpecChat == InitChat /\ [][NextChat]_vars

\* the chat server with one stream of a1 open, no stream of b1 and an empty
\* message table
InitOffline ==
    /\ ClientIdle
    /\ OpenAs([c \in {1} |-> "a1"])
    /\ last = Idle
    /\ messages = <<>>
    /\ now = 0
    /\ req = [r \in ReqIds |-> NoReq]

\* sends run while streams are requested and opened
NextOffline ==
    \/ \E c \in Conns : GetRequest(c)
    \/ \E c \in Conns : GetResume(c)
    \/ \E c \in Conns : Heartbeat(c)
    \/ \E r \in ReqIds, a, b \in Users, text \in Texts : a # b /\ SendCreate(r, a, b, text)
    \/ \E r \in ReqIds : RecomputeUser(r)
    \/ \E r \in ReqIds : RecomputePeer(r)
    \/ \E r \in ReqIds : SendPushMessage(r)
    \/ \E r \in ReqIds : SendPushConversations(r)

SpecOffline == InitOffline /\ [][NextOffline]_vars

\* the chat server with some streams open and one unread message from b1 to
\* a1 already in the table
InitRead ==
    /\ ClientIdle
    /\ \E ss \in [(1..MaxStreams) \cap Conns -> Users] :
          (\A c \in DOMAIN ss : c = 1 => ss[c] = "a1") /\ OpenAs(ss)
    /\ last = Idle
    /\ messages = <<[id |-> 1, senderId |-> "b1", receiverId |-> "a1",
                     text |-> "hi", createdAt |-> 1, readAt |-> Null]>>
    /\ now = 1
    /\ req = [r \in ReqIds |-> NoReq]

SpecRead == InitRead /\ [][NextChat]_vars

\* ------------------------------------------- recompute on arbitrary tables
\* updateConversationsForUser(userId), up to the awaited query
UpdateQuery(r, u) ==
    /\ CanStart(r)
    /\ \E cv \in updateConversationsForUserInternal(messages, u) :
         req' = [req EXCEPT ![r] = [NoReq EXCEPT !.kind = "update", !.pc = "queried",
                                                 !.user = u, !.convsUser = cv]]
    /\ last' = Idle
    /\ UNCHANGED clientVars
    /\ UNCHANGED <<connectedClients, phase, session, signalAborted, closed,
                   heartbeatInterval, log, messages, now>>

\* updateConversationsForUser: await sendMessageToUser(userId, {conversations}); return true
UpdatePush(r) ==
    /\ req[r].kind = "update"
    /\ req[r].pc = "queried"
    /\ LET s == sendMessageToUser(connectedClients, req[r].user)
           lg == LogAfter(log, [type |-> "conversations", conversations |-> req[r].convsUser],
                          s.attempted, s.wrote, r)
       IN  /\ Fits(lg)
           /\ connectedClients' = s.reg
           /\ log' = lg
    /\ req' = [req EXCEPT ![r] = Returned("update", TRUE)]
    /\ last' = Idle
    /\ UNCHANGED clientVars
    /\ UNCHANGED <<phase, session, signalAborted, closed, heartbeatInterval, messages, now>>

RECURSIVE TablesOf(_)
\* the tables of n rows: ids in insertion order, creation times from the
\* database clock (never decreasing), each row read or unread
TablesOf(n) ==
    IF n = 0
    THEN {<<>>}
    ELSE UNION {{Append(st, [id |-> n, senderId |-> a, receiverId |-> b, text |-> x,
                             createdAt |-> t, readAt |-> rd]) :
                    a \in StoreUsers, b \in StoreUsers, x \in Texts,
                    t \in (IF n = 1 THEN 1 ELSE st[n - 1].createdAt)..MaxTime,
                    rd \in {Null, MaxTime + 1}} :
                st \in TablesOf(n - 1)}

\* the tables of at most n rows
Tables(n) == UNION {TablesOf(k) : k \in 0..n}

\* one stream of a1 open, any table
InitStore ==
    /\ ClientIdle
    /\ OpenAs([c \in {1} |-> "a1"])
    /\ last = Idle
    /\ messages \in Tables(MaxStored)
    /\ now = MaxTime + 1
    /\ req = [r \in ReqIds |-> NoReq]

NextStore ==
    \/ \E r \in ReqIds, u \in StoreUsers : UpdateQuery(r, u)
    \/ \E r \in ReqIds : UpdatePush(r)

SpecStore == InitStore /\ [][NextStore]_vars

\* ------------------------------------------------- the client subscriber
\* (the ChatService class: one instance per browser session; every handler
\* runs to completion on the browser's event loop)
Ms == 4                          \* one millisecond, in the model's time unit (1/4 ms)
maxReconnectAttempts == 10
reconnectInterval == 2000 * Ms
TimerIds == 1..MaxTimers

RECURSIVE Pow(_, _)
\* Math.pow(b, e) for whole b and e >= 0
Pow(b, e) == IF e = 0 THEN 1 ELSE b * Pow(b, e - 1)

\* Math.min
Min(a, b) == IF a <= b THEN a ELSE b

Backoff_NoCap(n) == (reconnectInterval * Pow(3, n - 1)) \div Pow(2, n - 1)

\* Math.min(30000, this.reconnectInterval * Math.pow(1.5, n - 1)); the
\* product is a whole number of time units whenever it is below the maximum
Backoff(n) == Min(30000 * Ms, (reconnectInterval * Pow(3, n - 1)) \div Pow(2, n - 1))

\* the fields of the instance as a handler finds them, as one record; calls
\* collects the listener invocations the handler makes
Client ==
    [eventSource |-> eventSource, isConnected |-> isConnected,
     reconnectTimer |-> reconnectTimer, reconnectAttempts |-> reconnectAttempts,
     autoReconnect |-> autoReconnect, timers |-> timers, sources |-> sources,
     messageListeners |-> messageListeners,
     conversationListeners |-> conversationListeners,
     connectionStatusListeners |-> connectionStatusListeners,
     calls |-> << >>]

\* the handler leaves the instance as record s
SetClient(s) ==
    /\ eventSource' = s.eventSource
    /\ isConnected' = s.isConnected
    /\ reconnectTimer' = s.reconnectTimer
    /\ reconnectAttempts' = s.reconnectAttempts
    /\ autoReconnect' = s.autoReconnect
    /\ timers' = s.timers
    /\ sources' = s.sources
    /\ messageListeners' = s.messageListeners
    /\ conversationListeners' = s.conversationListeners
    /\ connectionStatusListeners' = s.connectionStatusListeners
    /\ calls' = s.calls

\* the pending timeouts without id
Cancelled(tm, id) == [k \in (DOMAIN tm) \ {id} |-> tm[k]]

clearReconnectTimer_Keep(s) == [s EXCEPT !.reconnectTimer = Null]

\* clearReconnectTimer(): clearTimeout of a fired or cleared id does nothing
clearReconnectTimer(s) ==
    IF s.reconnectTimer # Null
    THEN [s EXCEPT !.timers = Cancelled(s.timers, s.reconnectTimer), !.reconnectTimer = Null]
    ELSE s

\* this.reconnectTimer = setTimeout(callback, delay)
SetTimeout(s, kind, delay) ==
    LET free == TimerIds \ DOMAIN s.timers
        id == CHOOSE i \in free : \A j \in free : i <= j
    IN  [s EXCEPT !.reconnectTimer = id,
                  !.timers = [k \in (DOMAIN s.timers) \cup {id} |->
                                IF k = id
                                THEN [kind |-> kind, delay |-> delay, stale |-> FALSE]
                                ELSE s.timers[k]]]

handleDisconnect_Terminal(s) ==
    IF s.reconnectAttempts < maxReconnectAttempts
    THEN LET s1 == [s EXCEPT !.reconnectAttempts = @ + 1]
         IN  SetTimeout(clearReconnectTimer(s1), "reconnect", Backoff(s1.reconnectAttempts))
    ELSE s

handleDisconnect_NoCount(s) ==
    SetTimeout(clearReconnectTimer(s), "reconnect", Backoff(s.reconnectAttempts + 1))

\* handleDisconnect()
handleDisconnect(s) ==
    IF s.reconnectAttempts < maxReconnectAttempts
    THEN LET s1 == [s EXCEPT !.reconnectAttempts = @ + 1]
         IN  SetTimeout(clearReconnectTimer(s1), "reconnect", Backoff(s1.reconnectAttempts))
    ELSE SetTimeout(clearReconnectTimer(s), "reset", 60000 * Ms)

\* the application's listener functions
Callbacks == 1..MaxCallbacks

\* the conversation lists an event can carry
ConvLists == 1..MaxLists

\* what a listener is called with: the message of a `message` event (its
\* sender_id and receiver_id), the list of a `conversations` event, or the
\* flag of a connection-status notification
Data(type, sender, receiver, list) ==
    [type |-> type, sender_id |-> sender, receiver_id |-> receiver, conversations |-> list]

StatusArg(flag) == Data(IF flag THEN "true" ELSE "false", "none", "none", Null)

\* map.get(key) || []
Get(map, key) == IF key \in DOMAIN map THEN map[key] ELSE << >>

\* list.forEach(listener => listener(arg))
ForEach(s, list, kind, arg) ==
    [s EXCEPT !.calls = @ \o [i \in 1..Len(list) |-> [to |-> list[i], kind |-> kind, arg |-> arg]]]

notifyMessageListeners_SenderOnly(s, message) ==
    ForEach(s, Get(s.messageListeners, message.sender_id), "message", message)

\* notifyMessageListeners(message): the listeners under the sender's id,
\* then the listeners under the receiver's id
notifyMessageListeners(s, message) ==
    LET senderListeners == Get(s.messageListeners, message.sender_id)
        receiverListeners == Get(s.messageListeners, message.receiver_id)
    IN  ForEach(ForEach(s, senderListeners, "message", message),
                receiverListeners, "message", message)

notifyConversationListeners_First(s, data) ==
    ForEach(s, IF s.conversationListeners = << >> THEN << >>
               ELSE <<Head(s.conversationListeners)>>, "conversations", data)

\* notifyConversationListeners(conversations)
notifyConversationListeners(s, data) ==
    ForEach(s, s.conversationListeners, "conversations", data)

\* notifyConnectionStatusListeners(isConnected)
notifyConnectionStatusListeners(s, flag) ==
    ForEach(s, s.connectionStatusListeners, "status", StatusArg(flag))

\* this.eventSource.close(); this.eventSource = null  (close() of a stream
\* that has closed itself changes nothing)
Close(s) ==
    [s EXCEPT !.eventSource = "null",
              !.sources = IF s.eventSource \in {"connecting", "open", "waiting"}
                          THEN @ - 1 ELSE @]

\* the timeouts pending when connect() is entered were scheduled before it
MarkStale(tm) == [k \in DOMAIN tm |-> [tm[k] EXCEPT !.stale = TRUE]]

connect_NoClose(s, throws) ==
    LET s0 == [s EXCEPT !.eventSource = "null", !.timers = MarkStale(s.timers)]
    IN  IF ~throws
        THEN [s0 EXCEPT !.eventSource = "connecting", !.sources = @ + 1]
        ELSE LET s1 == notifyConnectionStatusListeners([s0 EXCEPT !.isConnected = FALSE], FALSE)
             IN  IF s1.autoReconnect THEN handleDisconnect(s1) ELSE s1

\* connect(): close the stream held, then either the new EventSource exists
\* (handlers attached, connecting) or its construction threw (catch block)
connect(s, throws) ==
    LET s0 == [Close(s) EXCEPT !.timers = MarkStale(s.timers)]
    IN  IF ~throws
        THEN [s0 EXCEPT !.eventSource = "connecting", !.sources = @ + 1]
        ELSE LET s1 == notifyConnectionStatusListeners([s0 EXCEPT !.isConnected = FALSE], FALSE)
             IN  IF s1.autoReconnect THEN handleDisconnect(s1) ELSE s1

\* a handler may schedule a timeout (model bound on pending timeouts)
TimerRoom == Cardinality(DOMAIN timers) < MaxTimers

\* the application calls connect()
AppConnect(throws) ==
    /\ TimerRoom
    /\ SetClient(connect(Client, throws))
    /\ clientLast' = [op |-> IF throws THEN "connectThrew" ELSE "connect",
                      was |-> reconnectAttempts, src |-> eventSource, pend |-> DOMAIN timers, h |-> NoHandle, ev |-> NoEvent]
    /\ UNCHANGED <<regVars, chatVars, cacheVars, handles, conversations>>

OnOpen_NoReset ==
    /\ eventSource = "connecting"
    /\ SetClient(notifyConnectionStatusListeners(
                     clearReconnectTimer([Client EXCEPT !.eventSource = "open",
                                                        !.isConnected = TRUE]), TRUE))
    /\ clientLast' = [op |-> "onopen", was |-> reconnectAttempts, src |-> eventSource, pend |-> DOMAIN timers, h |-> NoHandle, ev |-> NoEvent]
    /\ UNCHANGED <<regVars, chatVars, cacheVars, handles, conversations>>

\* eventSource.onopen
OnOpen ==
    /\ eventSource = "connecting"
    /\ SetClient(notifyConnectionStatusListeners(
                     clearReconnectTimer([Client EXCEPT !.eventSource = "open",
                                                        !.isConnected = TRUE,
                                                        !.reconnectAttempts = 0]), TRUE))
    /\ clientLast' = [op |-> "onopen", was |-> reconnectAttempts, src |-> eventSource, pend |-> DOMAIN timers, h |-> NoHandle, ev |-> NoEvent]
    /\ UNCHANGED <<regVars, chatVars, cacheVars, handles, conversations>>

\* the events a stream can deliver: the three kinds the handler acts on, the
\* `connected` greeting it ignores, and a payload on which JSON.parse or the
\* access to the message's fields throws
EventTypes == {"message", "conversations", "heartbeat"}

Events ==
    {Data("message", a, b, Null) : a, b \in Users}
      \cup {Data("conversations", "none", "none", c) : c \in ConvLists}
      \cup {Data(t, "none", "none", Null) : t \in {"heartbeat", "connected", "malformed"}}

\* handleConversationsUpdate of the mounted ChatProvider
HandleConversationsUpdate == 1

\* the members of a listener list
Range(list) == {list[i] : i \in 1..Len(list)}

OnMessage_Throws(data) ==
    /\ eventSource = "open"
    /\ SetClient(IF data.type = "malformed" THEN Close(Client)
                 ELSE IF data.type = "message" THEN notifyMessageListeners(Client, data)
                 ELSE IF data.type = "conversations" THEN notifyConversationListeners(Client, data)
                 ELSE IF data.type = "heartbeat" /\ ~isConnected
                 THEN notifyConnectionStatusListeners([Client EXCEPT !.isConnected = TRUE], TRUE)
                 ELSE Client)
    /\ conversations' = IF /\ data.type = "conversations"
                           /\ HandleConversationsUpdate \in Range(conversationListeners)
                        THEN data.conversations
                        ELSE conversations
    /\ clientLast' = [op |-> data.type, was |-> reconnectAttempts, src |-> eventSource,
                      pend |-> DOMAIN timers, h |-> NoHandle, ev |-> data]
    /\ UNCHANGED <<regVars, chatVars, cacheVars, handles>>

\* eventSource.onmessage: an open stream delivers the event; a payload that
\* makes the try block throw is logged and dropped, a `message` goes to the
\* message listeners, a `conversations` list to the conversation listeners
\* (the provider's listener stores it), a heartbeat sets isConnected
OnMessage(data) ==
    /\ eventSource = "open"
    /\ SetClient(IF data.type = "malformed" THEN Client
                 ELSE IF data.type = "message" THEN notifyMessageListeners(Client, data)
                 ELSE IF data.type = "conversations" THEN notifyConversationListeners(Client, data)
                 ELSE IF data.type = "heartbeat" /\ ~isConnected
                 THEN notifyConnectionStatusListeners([Client EXCEPT !.isConnected = TRUE], TRUE)
                 ELSE Client)
    /\ conversations' = IF /\ data.type = "conversations"
                           /\ HandleConversationsUpdate \in Range(conversationListeners)
                        THEN data.conversations
                        ELSE conversations
    /\ clientLast' = [op |-> data.type, was |-> reconnectAttempts, src |-> eventSource,
                      pend |-> DOMAIN timers, h |-> NoHandle, ev |-> data]
    /\ UNCHANGED <<regVars, chatVars, cacheVars, handles>>

\* eventSource.onerror: the stream failed to open or dropped; the EventSource
\* will retry by itself, or (fatal, e.g. a 401 response) has closed itself
OnError(fatal) ==
    /\ eventSource \in {"connecting", "open"}
    /\ TimerRoom
    /\ LET s1 == [Client EXCEPT !.eventSource = IF fatal THEN "closed" ELSE "waiting",
                                !.sources = IF fatal THEN @ - 1 ELSE @,
                                !.isConnected = FALSE]
           s2 == IF isConnected THEN notifyConnectionStatusListeners(s1, FALSE) ELSE s1
       IN  SetClient(IF autoReconnect THEN handleDisconnect(s2) ELSE s2)
    /\ clientLast' = [op |-> "onerror", was |-> reconnectAttempts, src |-> eventSource, pend |-> DOMAIN timers, h |-> NoHandle, ev |-> NoEvent]
    /\ UNCHANGED <<regVars, chatVars, cacheVars, handles, conversations>>

\* the EventSource reopens its request after an error, by itself
SourceRetry ==
    /\ eventSource = "waiting"
    /\ eventSource' = "connecting"
    /\ clientLast' = [op |-> "retry", was |-> reconnectAttempts, src |-> eventSource, pend |-> DOMAIN timers, h |-> NoHandle, ev |-> NoEvent]
    /\ calls' = << >>
    /\ UNCHANGED <<isConnected, reconnectTimer, reconnectAttempts, autoReconnect, timers,
                   sources, messageListeners, conversationListeners,
                   connectionStatusListeners, handles, conversations, regVars, chatVars, cacheVars>>

\* a pending timeout fires: the reconnect callback closes the stream and
\* calls connect(); the reset callback zeroes the attempts and calls
\* handleDisconnect()
TimerFires(id, throws) ==
    /\ id \in DOMAIN timers
    /\ LET s0 == [Client EXCEPT !.timers = Cancelled(timers, id)]
       IN  IF timers[id].kind = "reconnect"
           THEN /\ SetClient(connect(Close(s0), throws))
                /\ clientLast' = [op |-> IF throws THEN "reconnectThrew" ELSE "reconnect",
                                  was |-> reconnectAttempts, src |-> eventSource, pend |-> DOMAIN timers, h |-> NoHandle, ev |-> NoEvent]
           ELSE /\ ~throws
                /\ SetClient(handleDisconnect([s0 EXCEPT !.reconnectAttempts = 0]))
                /\ clientLast' = [op |-> "reset", was |-> reconnectAttempts, src |-> eventSource, pend |-> DOMAIN timers, h |-> NoHandle, ev |-> NoEvent]
    /\ UNCHANGED <<regVars, chatVars, cacheVars, handles, conversations>>

Disconnect_KeepListeners ==
    /\ LET s1 == [Close(Client) EXCEPT !.autoReconnect = FALSE, !.isConnected = FALSE]
       IN  SetClient(clearReconnectTimer(notifyConnectionStatusListeners(s1, FALSE)))
    /\ clientLast' = [op |-> "disconnect", was |-> reconnectAttempts, src |-> eventSource, pend |-> DOMAIN timers, h |-> NoHandle, ev |-> NoEvent]
    /\ UNCHANGED <<regVars, chatVars, cacheVars, handles, conversations>>

\* disconnect()
Disconnect ==
    /\ LET s1 == [Close(Client) EXCEPT !.autoReconnect = FALSE, !.isConnected = FALSE]
           s2 == clearReconnectTimer(notifyConnectionStatusListeners(s1, FALSE))
       IN  SetClient([s2 EXCEPT !.messageListeners = << >>,
                                !.conversationListeners = << >>,
                                !.connectionStatusListeners = << >>])
    /\ clientLast' = [op |-> "disconnect", was |-> reconnectAttempts, src |-> eventSource, pend |-> DOMAIN timers, h |-> NoHandle, ev |-> NoEvent]
    /\ UNCHANGED <<regVars, chatVars, cacheVars, handles, conversations>>

\* getChatService() after resetChatService(): a new instance replaces the
\* one that disconnect() has just left (reset drops the reference in the
\* same call, and no caller keeps one)
GetChatService ==
    /\ ~autoReconnect
    /\ eventSource = "null"
    /\ SetClient([eventSource |-> "null", isConnected |-> FALSE, reconnectTimer |-> Null,
                  reconnectAttempts |-> 0, autoReconnect |-> TRUE, timers |-> << >>,
                  sources |-> sources, messageListeners |-> << >>,
                  conversationListeners |-> << >>, connectionStatusListeners |-> << >>,
                  calls |-> << >>])
    /\ handles' = {}
    /\ clientLast' = [op |-> "none", was |-> 0, src |-> "null", pend |-> {}, h |-> NoHandle, ev |-> NoEvent]
    /\ UNCHANGED <<regVars, chatVars, cacheVars, conversations>>

InitClient == InitRegistry

\* the closure returned by onNewMessage / onConversationsUpdate /
\* onConnectionStatus: what it captured
Handle(kind, key, listener) == [kind |-> kind, key |-> key, listener |-> listener]

\* the handler that ran last was a call of the application
Called(op, handle) ==
    clientLast' = [op |-> op, was |-> reconnectAttempts, src |-> eventSource,
                   pend |-> DOMAIN timers, h |-> handle, ev |-> NoEvent]

\* list.filter(l => l !== listener)
Filter(list, listener) == SelectSeq(list, LAMBDA l : l # listener)

RECURSIVE Registrations(_, _)
\* the number of registrations under the keys K of a listener map
Registrations(map, K) ==
    IF K = {} THEN 0
    ELSE LET k == CHOOSE x \in K : TRUE
         IN  Len(map[k]) + Registrations(map, K \ {k})

\* the application may register one more listener and keep its closure
\* (model bound)
SubRoom(handle) ==
    /\ Registrations(messageListeners, DOMAIN messageListeners)
         + Len(conversationListeners) + Len(connectionStatusListeners) < MaxSubs
    /\ Cardinality(handles \cup {handle}) <= MaxSubs

\* onNewMessage(conversationId, listener)
OnNewMessage(conversationId, listener) ==
    /\ SubRoom(Handle("message", conversationId, listener))
    /\ messageListeners' = MapSet(messageListeners, conversationId,
                                  Append(Get(messageListeners, conversationId), listener))
    /\ handles' = handles \cup {Handle("message", conversationId, listener)}
    /\ calls' = << >>
    /\ Called("onNewMessage", Handle("message", conversationId, listener))
    /\ UNCHANGED <<eventSource, isConnected, reconnectTimer, reconnectAttempts, autoReconnect,
                   timers, sources, conversationListeners, connectionStatusListeners,
                   conversations, regVars, chatVars, cacheVars>>

\* onConversationsUpdate(listener)
OnConversationsUpdate(listener) ==
    /\ SubRoom(Handle("conversations", "none", listener))
    /\ conversationListeners' = Append(conversationListeners, listener)
    /\ handles' = handles \cup {Handle("conversations", "none", listener)}
    /\ calls' = << >>
    /\ Called("onConversationsUpdate", Handle("conversations", "none", listener))
    /\ UNCHANGED <<eventSource, isConnected, reconnectTimer, reconnectAttempts, autoReconnect,
                   timers, sources, messageListeners, connectionStatusListeners,
                   conversations, regVars, chatVars, cacheVars>>

\* onConnectionStatus(listener): the listener is told the current status at once
OnConnectionStatus(listener) ==
    /\ SubRoom(Handle("status", "none", listener))
    /\ connectionStatusListeners' = Append(connectionStatusListeners, listener)
    /\ handles' = handles \cup {Handle("status", "none", listener)}
    /\ calls' = <<[to |-> listener, kind |-> "status", arg |-> StatusArg(isConnected)]>>
    /\ Called("onConnectionStatus", Handle("status", "none", listener))
    /\ UNCHANGED <<eventSource, isConnected, reconnectTimer, reconnectAttempts, autoReconnect,
                   timers, sources, messageListeners, conversationListeners,
                   conversations, regVars, chatVars, cacheVars>>

\* the application calls an unsubscribe closure it was given, and drops it
Unsubscribe(handle) ==
    /\ handle \in handles
    /\ handles' = handles \ {handle}
    /\ messageListeners' =
          IF handle.kind = "message"
          THEN MapSet(messageListeners, handle.key,
                      Filter(Get(messageListeners, handle.key), handle.listener))
          ELSE messageListeners
    /\ conversationListeners' =
          IF handle.kind = "conversations"
          THEN Filter(conversationListeners, handle.listener)
          ELSE conversationListeners
    /\ connectionStatusListeners' =
          IF handle.kind = "status"
          THEN Filter(connectionStatusListeners, handle.listener)
          ELSE connectionStatusListeners
    /\ calls' = << >>
    /\ Called("unsubscribe", handle)
    /\ UNCHANGED <<eventSource, isConnected, reconnectTimer, reconnectAttempts, autoReconnect,
                   timers, sources, conversations, regVars, chatVars, cacheVars>>

\* every closure the application can hold
Handles ==
    {Handle("message", k, l) : k \in Users, l \in Callbacks}
      \cup {Handle(kind, "none", l) : kind \in {"conversations", "status"}, l \in Callbacks}

\* the subscriber with an application that registers and removes listeners
NextListen ==
    \/ AppConnect(FALSE)
    \/ OnOpen
    \/ \E data \in Events : OnMessage(data)
    \/ Disconnect
    \/ GetChatService
    \/ \E k \in Users, l \in Callbacks : OnNewMessage(k, l)
    \/ \E l \in Callbacks : OnConversationsUpdate(l)
    \/ \E l \in Callbacks : OnConnectionStatus(l)
    \/ \E handle \in Handles : Unsubscribe(handle)

SpecListen == InitClient /\ [][NextListen]_vars

NextClient ==
    \/ \E throws \in BOOLEAN : AppConnect(throws)
    \/ OnOpen
    \/ \E data \in Events : OnMessage(data)
    \/ \E fatal \in BOOLEAN : OnError(fatal)
    \/ SourceRetry
    \/ \E id \in TimerIds, throws \in BOOLEAN : TimerFires(id, throws)
    \/ Disconnect
    \/ GetChatService

SpecClient == InitClient /\ [][NextClient]_vars

\* a pending timeout fires, an EventSource waiting to retry retries, and a
\* request for the stream ends by opening or by failing
FairClient ==
    /\ WF_vars(\E id \in TimerIds, throws \in BOOLEAN : TimerFires(id, throws))
    /\ WF_vars(SourceRetry)
    /\ WF_vars(OnOpen \/ \E fatal \in BOOLEAN : OnError(fatal))

SpecClientLive == SpecClient /\ FairClient


\* ------------------------------------------------------ the message caches
\* this.userId of the older ChatService: the client's user
userId == "a1"

\* handleNewMessage of the mounted ChatProvider
HandleNewMessage == 1

\* one step of the clock, and the tolerance window of the duplicate check (ms)
Step == 5000
Window == 10000

\* no message
NoMessage ==
    [id |-> Null, sender_id |-> "none", receiver_id |-> "none", text |-> "none",
     created_at |-> Null, read_at |-> Null]

\* the entry sendMessage builds before it calls the server: no id
Optimistic(receiverId, text, t) ==
    [sender_id |-> userId, receiver_id |-> receiverId, text |-> text, created_at |-> t]

\* the entry carries a server-assigned id
HasId(m) == "id" \in DOMAIN m /\ m.id # Null

\* addMessageToConversation(conversationId, message)
addMessageToConversation(map, conversationId, message) ==
    MapSet(map, conversationId, Append(Get(map, conversationId), message))

\* Math.abs
Abs(x) == IF x < 0 THEN -x ELSE x

\* the content comparison of handleNewMessage
ContentMatch(msg, newMessage) ==
    /\ msg.text = newMessage.text
    /\ msg.sender_id = newMessage.sender_id
    /\ msg.receiver_id = newMessage.receiver_id
    /\ Abs(msg.created_at - newMessage.created_at) < Window

\* handleNewMessage(newMessage) of the provider, registered for conversationId
handleNewMessage(map, conversationId, newMessage) ==
    LET conversationMessages == Get(map, conversationId)
        exactIdMatch ==
            /\ HasId(newMessage)
            /\ \E k \in 1..Len(conversationMessages) :
                  HasId(conversationMessages[k]) /\ conversationMessages[k].id = newMessage.id
        contentMatch ==
            \E k \in 1..Len(conversationMessages) :
                ContentMatch(conversationMessages[k], newMessage)
    IN  IF exactIdMatch \/ contentMatch
        THEN map
        ELSE MapSet(map, conversationId, Append(conversationMessages, newMessage))

\* the provider's listener run once for every invocation in calls
RunListener(map, conversationId, newMessage, n) ==
    IF n = 0 THEN map
    ELSE IF n = 1 THEN handleNewMessage(map, conversationId, newMessage)
    ELSE handleNewMessage(handleNewMessage(map, conversationId, newMessage),
                          conversationId, newMessage)

\* getMessages(otherUserId) on the server: the rows between the two users,
\* oldest first (rows are inserted with non-decreasing createdAt)
getMessages(store, u, otherUserId) ==
    LET between(m) == \/ m.senderId = u /\ m.receiverId = otherUserId
                      \/ m.senderId = otherUserId /\ m.receiverId = u
        rows == SelectSeq(store, between)
    IN  [k \in 1..Len(rows) |-> Format(rows[k])]

\* prisma.message.create for a message from a to b at time t
Created(store, a, b, text, t) ==
    [id |-> Len(store) + 1, senderId |-> a, receiverId |-> b,
     text |-> text, createdAt |-> t, readAt |-> Null]

\* what a cache step leaves alone outside the caches
CacheFrame ==
    UNCHANGED <<connectedClients, phase, session, signalAborted, closed, heartbeatInterval,
                log, last, req, eventSource, isConnected, reconnectTimer,
                reconnectAttempts, autoReconnect, timers, sources, clientLast,
                messageListeners, conversationListeners, connectionStatusListeners,
                calls, handles, conversations, currentConversation>>

ServiceSend_NoAppend(receiverId, text) ==
    /\ Len(sends) < MaxSends
    /\ sends' = Append(sends, [peer |-> receiverId, text |-> text, pc |-> "issued",
                               message |-> NoMessage])
    /\ cacheLast' = [op |-> "send", i |-> Len(sends) + 1]
    /\ CacheFrame
    /\ UNCHANGED <<thisConversations, stateMessages, loads, inbox, messages, now>>

\* sendMessage(receiverId, text) of the older ChatService, up to the await:
\* the optimistic entry is appended, then the server action is called
ServiceSend(receiverId, text) ==
    /\ Len(sends) < MaxSends
    /\ thisConversations' = addMessageToConversation(thisConversations, receiverId,
                                                     Optimistic(receiverId, text, now))
    /\ sends' = Append(sends, [peer |-> receiverId, text |-> text, pc |-> "issued",
                               message |-> NoMessage])
    /\ cacheLast' = [op |-> "send", i |-> Len(sends) + 1]
    /\ CacheFrame
    /\ UNCHANGED <<stateMessages, loads, inbox, messages, now>>

\* the server action of call i creates the row and writes the `message`
\* event to the sender's stream before it answers
ActionPersists(i) ==
    /\ i \in DOMAIN sends
    /\ sends[i].pc = "issued"
    /\ LET row == Created(messages, userId, sends[i].peer, sends[i].text, now)
       IN  /\ messages' = Append(messages, row)
           /\ inbox' = Append(inbox, Format(row))
           /\ sends' = [sends EXCEPT ![i].pc = "persisted", ![i].message = Format(row)]
    /\ cacheLast' = [op |-> "persisted", i |-> i]
    /\ CacheFrame
    /\ UNCHANGED <<thisConversations, stateMessages, loads, now>>

\* the request of call i fails (network or persistence): nothing is stored
ActionFails(i) ==
    /\ i \in DOMAIN sends
    /\ sends[i].pc = "issued"
    /\ sends' = [sends EXCEPT ![i].pc = "failed"]
    /\ cacheLast' = [op |-> "failed", i |-> i]
    /\ CacheFrame
    /\ UNCHANGED <<thisConversations, stateMessages, loads, inbox, messages, now>>

\* sendMessage after the await: the confirmed message is returned, or the
\* catch block logs and returns null (the provider then throws to its caller)
SendReturns(i) ==
    /\ i \in DOMAIN sends
    /\ sends[i].pc \in {"persisted", "failed"}
    /\ sends' = [sends EXCEPT ![i].pc = IF sends[i].pc = "failed" THEN "threw" ELSE "returned"]
    /\ cacheLast' = [op |-> IF sends[i].pc = "failed" THEN "sendFailed" ELSE "sent", i |-> i]
    /\ CacheFrame
    /\ UNCHANGED <<thisConversations, stateMessages, loads, inbox, messages, now>>

\* the peer sends a message to the client's user: the server creates the row
\* and writes the event to the user's stream
PeerSends(peer, text) ==
    /\ Cardinality({k \in DOMAIN messages : messages[k].senderId = peer}) < MaxPeerSends
    /\ LET row == Created(messages, peer, userId, text, now)
       IN  /\ messages' = Append(messages, row)
           /\ inbox' = Append(inbox, Format(row))
    /\ cacheLast' = [op |-> "peerSent", i |-> 0]
    /\ CacheFrame
    /\ UNCHANGED <<thisConversations, stateMessages, sends, loads, now>>

\* eventSource.onmessage for the next `message` event of the stream: the
\* older ChatService appends it to the bucket of the other party; the
\* subscriber notifies the listeners of both parties, and the provider's
\* listener inserts it into the bucket of its conversation unless it finds a
\* duplicate
MessageEvent ==
    /\ inbox # << >>
    /\ eventSource = "open"
    /\ LET message == Head(inbox)
           conversationId == IF message.sender_id = userId
                             THEN message.receiver_id ELSE message.sender_id
           s == notifyMessageListeners(Client, message)
           n == Cardinality({k \in 1..Len(s.calls) : s.calls[k].to = HandleNewMessage})
       IN  /\ thisConversations' =
                 addMessageToConversation(thisConversations, conversationId, message)
           /\ stateMessages' = RunListener(stateMessages, currentConversation, message, n)
           /\ calls' = s.calls
           /\ clientLast' = [op |-> "message", was |-> reconnectAttempts, src |-> eventSource,
                             pend |-> DOMAIN timers, h |-> NoHandle,
                             ev |-> Data("message", message.sender_id, message.receiver_id,
                                         Null)]
    /\ inbox' = Tail(inbox)
    /\ cacheLast' = [op |-> "event", i |-> 0]
    /\ UNCHANGED <<regVars, chatVars, eventSource, isConnected, reconnectTimer,
                   reconnectAttempts, autoReconnect, timers, sources, messageListeners,
                   conversationListeners, connectionStatusListeners, handles,
                   conversations, currentConversation, sends, loads>>

\* loadMessages(userId) of the provider, up to the await: the bucket is emptied
\* (loading state) and the server is asked for the messages
LoadStart(peer) ==
    /\ currentConversation = peer
    /\ Len(loads) < MaxLoads
    /\ stateMessages' = MapSet(stateMessages, peer, << >>)
    /\ loads' = Append(loads, [peer |-> peer, pc |-> "issued", rows |-> << >>])
    /\ cacheLast' = [op |-> "loadStart", i |-> Len(loads) + 1]
    /\ CacheFrame
    /\ UNCHANGED <<thisConversations, sends, inbox, messages, now>>

\* getChatMessages on the server reads the table for load i
LoadRead(i) ==
    /\ i \in DOMAIN loads
    /\ loads[i].pc = "issued"
    /\ loads' = [loads EXCEPT ![i].pc = "read",
                               ![i].rows = getMessages(messages, userId, loads[i].peer)]
    /\ cacheLast' = [op |-> "loadRead", i |-> i]
    /\ CacheFrame
    /\ UNCHANGED <<thisConversations, stateMessages, sends, inbox, messages, now>>

\* loadMessages after the await: the bucket is replaced by the answer
LoadDone(i) ==
    /\ i \in DOMAIN loads
    /\ loads[i].pc = "read"
    /\ stateMessages' = MapSet(stateMessages, loads[i].peer, loads[i].rows)
    /\ loads' = [loads EXCEPT ![i].pc = "done"]
    /\ cacheLast' = [op |-> "loadDone", i |-> i]
    /\ CacheFrame
    /\ UNCHANGED <<thisConversations, sends, inbox, messages, now>>

\* five seconds pass
Tick ==
    /\ now < 1 + MaxTicks * Step
    /\ now' = now + Step
    /\ cacheLast' = [op |-> "tick", i |-> 0]
    /\ CacheFrame
    /\ UNCHANGED <<thisConversations, stateMessages, sends, loads, inbox, messages>>

\* the client of a1 with its stream open and the conversation with b1 opened
\* in the provider (its listener registered, its first load answered from the
\* empty table)
InitCache ==
    /\ OpenAs([c \in {1} |-> userId])
    /\ last = Idle
    /\ messages = << >>
    /\ now = 1
    /\ req = [r \in ReqIds |-> NoReq]
    /\ eventSource = "open"
    /\ isConnected = TRUE
    /\ reconnectTimer = Null
    /\ reconnectAttempts = 0
    /\ autoReconnect = TRUE
    /\ timers = << >>
    /\ sources = 1
    /\ messageListeners = [k \in {"b1"} |-> <<HandleNewMessage>>]
    /\ conversationListeners = << >>
    /\ connectionStatusListeners = << >>
    /\ calls = << >>
    /\ handles = {Handle("message", "b1", HandleNewMessage)}
    /\ conversations = Null
    /\ clientLast = [op |-> "onNewMessage", was |-> 0, src |-> "open", pend |-> {},
                     h |-> Handle("message", "b1", HandleNewMessage), ev |-> NoEvent]
    /\ thisConversations = << >>
    /\ stateMessages = [k \in {"b1"} |-> << >>]
    /\ currentConversation = "b1"
    /\ sends = << >>
    /\ loads = << >>
    /\ inbox = << >>
    /\ cacheLast = NoStep

NextCache ==
    \/ \E text \in Texts : ServiceSend("b1", text)
    \/ \E i \in 1..MaxSends : ActionPersists(i)
    \/ \E i \in 1..MaxSends : ActionFails(i)
    \/ \E i \in 1..MaxSends : SendReturns(i)
    \/ \E text \in Texts : PeerSends("b1", text)
    \/ MessageEvent
    \/ LoadStart("b1")
    \/ \E i \in 1..MaxLoads : LoadRead(i)
    \/ \E i \in 1..MaxLoads : LoadDone(i)
    \/ Tick

SpecCache == InitCache /\ [][NextCache]_vars






\* ================================================================ properties
\* the stream of request c was opened and is no longer in the registry
Removed(c) == phase[c] \in {"open", "aborted"} /\ c \notin Registered(connectedClients)

\* the code has unregistered stream c: its abort listener ran or one of its
\* writes failed
Unregistered(c) == phase[c] = "aborted" \/ HasFailedWrite(log[c])

\* the streams of user u that were opened and have neither aborted nor failed a write
Live(u) == {c \in Conns : session[c] = u /\ phase[c] = "open" /\ ~HasFailedWrite(log[c])}

\* C1: a sendMessageToUser(user, event) call attempts a write on exactly the
\* Connections in the user's bucket at the moment of the call, and on no
\* Connection that was unregistered before the call
C1_BroadcastReachesRegistered ==
    [][last'.op = "broadcast" =>
          /\ last'.attempted = Bucket(connectedClients, last'.who)
          /\ \A c \in last'.attempted : ~Unregistered(c)
          /\ \A c \in Conns :
                log'[c] = IF c \in Bucket(connectedClients, last'.who)
                          THEN Append(log[c], Last(log'[c]))
                          ELSE log[c]]_vars

\* a broadcast reached a stream of a user who has another, already unregistered stream
C1_Witness ==
    /\ last.op = "broadcast"
    /\ last.attempted # {}
    /\ \E c \in Conns : /\ session[c] = last.who
                        /\ Unregistered(c)
                        /\ c \notin last.attempted

\* C2: sendMessageToUser returns true iff at least one Connection accepted the
\* write; false when every write fails, false when the user has no Connection
C2_TrueIffDelivered ==
    last.op = "broadcast" => (last.result <=> last.wrote # {})

\* C3: when a write to one of two Connections fails during a broadcast, the
\* other Connection still receives the event, nothing is thrown to the caller,
\* and a Connection whose write failed is not in the registry afterwards
C3_PartialFailureHeals ==
    /\ \A c \in Conns : HasFailedWrite(log[c]) => c \notin Registered(connectedClients)
    /\ last.op = "broadcast" =>
          /\ ~last.threw
          /\ \A c \in last.attempted :
                ~closed[c] => c \in last.wrote /\ Last(log[c]).ok

\* a broadcast to two Connections in which exactly one write failed
C3_Witness ==
    /\ last.op = "broadcast"
    /\ Cardinality(last.attempted) = 2
    /\ Cardinality(last.wrote) = 1

\* C4: no Connection is out of the registry while its heartbeat interval is
\* still scheduled (the interval is cancelled on every exit path)
C4_NoLeakedHeartbeat ==
    \A c \in Conns : Removed(c) => ~heartbeatInterval[c]

\* C5: the registry has no empty bucket; a user's bucket exists iff the user
\* has a registered Connection, and holds exactly those
C5_NoEmptyBucket ==
    \A u \in Users :
        /\ Has(connectedClients, u) => connectedClients[u] # {}
        /\ Has(connectedClients, u) <=> Live(u) # {}
        /\ Bucket(connectedClients, u) = Live(u)

\* one user's bucket was deleted by the unregister that emptied it while
\* another bucket exists
C5_Witness ==
    /\ \E c \in Conns : phase[c] = "aborted" /\ ~Has(connectedClients, session[c])
    /\ \E u \in Users : Has(connectedClients, u)

\* C6: cleanupClient is idempotent: for a Connection not in the registry it
\* leaves the registry unchanged (also when the abort listener runs it for a
\* Connection a failed write already removed), and twice equals once
C6_CleanupIdempotent ==
    /\ [](\A u \in Users, c \in Conns :
            LET once == cleanupClient(connectedClients, u, c)
            IN  /\ cleanupClient(once, u, c) = once
                /\ c \notin Bucket(connectedClients, u) => once = connectedClients)
    /\ [][\A c \in Conns :
            (phase[c] = "open" /\ phase'[c] = "aborted" /\ Removed(c))
               => connectedClients' = connectedClients]_vars

\* the abort listener ran cleanupClient for a Connection that a failed write
\* had already removed, while the user's bucket still exists
C6_Witness ==
    \E c \in Conns : /\ phase[c] = "aborted"
                     /\ HasFailedWrite(log[c])
                     /\ Has(connectedClients, session[c])

C8_UnauthenticatedRejected ==
    /\ [](\A c \in Conns : (session[c] = NoUser /\ phase[c] \notin {"idle", "auth"}) =>
              /\ phase[c] = "rejected"
              /\ c \notin Registered(connectedClients)
              /\ ~heartbeatInterval[c]
              /\ log[c] = <<>>)
    /\ [][\A c \in Conns : (phase[c] = "auth" /\ session[c] = NoUser /\ phase'[c] # "auth") =>
              /\ last'.op = "GET401"
              /\ connectedClients' = connectedClients
              /\ heartbeatInterval' = heartbeatInterval
              /\ log' = log]_vars

\* a request was just rejected while another user's stream is registered
C8_Witness ==
    /\ last.op = "GET401"
    /\ Registered(connectedClients) # {}


\* the streams of user u that accept writes
OpenConns(u) == {c \in Conns : session[c] = u /\ phase[c] = "open" /\ ~closed[c]}

\* the positions of the entries of a conversations list for peer p
EntriesFor(list, p) == {k \in DOMAIN list : list[k].user = p}

\* the number of rows from one user to another without read timestamp
UnreadFrom(store, from, to) ==
    Cardinality({i \in DOMAIN store : /\ store[i].senderId = from
                                      /\ store[i].receiverId = to
                                      /\ store[i].readAt = Null})

\* log entry a is the `message` / `conversations` event pushed by invocation r
IsMessageBy(a, r) == a.by = r /\ a.ev.type = "message"
IsConvsBy(a, r) == a.by = r /\ a.ev.type = "conversations"

\* the step of send invocation r that pushes the message / the conversations
PushesMessage(r) == req[r].kind = "send" /\ req[r].pc = "computed" /\ req'[r].pc = "pushed"
PushesConversations(r) == req[r].kind = "send" /\ req[r].pc = "pushed" /\ req'[r].pc = "done"

\* the message push of r appends the sent message to every writable stream of both users
MessageDelivered(r) ==
    \A c \in OpenConns(req[r].user) \cup OpenConns(req[r].peer) :
        /\ Len(log'[c]) = Len(log[c]) + 1
        /\ IsMessageBy(Last(log'[c]), r)
        /\ Last(log'[c]).ok
        /\ Last(log'[c]).ev.message.id = req[r].msg
        /\ Last(log'[c]).ev.message.sender_id = req[r].user
        /\ Last(log'[c]).ev.message.receiver_id = req[r].peer
        /\ Last(log'[c]).ev.message.text = messages[req[r].msg].text

\* the conversations push of r appends, on every writable stream of both users,
\* a list with an entry for the other party whose lastMessage satisfies Content
ConversationsDelivered(r, Content(_)) ==
    \A c \in OpenConns(req[r].user) \cup OpenConns(req[r].peer) :
        LET other == IF session[c] = req[r].user THEN req[r].peer ELSE req[r].user
            a == Last(log'[c])
        IN  /\ Len(log'[c]) = Len(log[c]) + 1
            /\ IsConvsBy(a, r)
            /\ a.ok
            /\ \E k \in EntriesFor(a.ev.conversations, other) :
                  Content(a.ev.conversations[k].lastMessage)

\* on no stream does the conversations event of an invocation precede its message event
MessageFirst ==
    \A c \in Conns, r \in ReqIds : \A i, j \in DOMAIN log[c] :
        (IsMessageBy(log[c][i], r) /\ IsConvsBy(log[c][j], r)) => i < j

\* C9 as stated: the message event reaches every open Connection of A and B
\* and is followed, not preceded, by a conversations event whose entry for the
\* other party has lastMessage equal to the sent message
C9_FollowedByOwnMessage ==
    /\ []MessageFirst
    /\ [][\A r \in ReqIds :
            /\ PushesMessage(r) => MessageDelivered(r)
            /\ PushesConversations(r) =>
                 ConversationsDelivered(r, LAMBDA m : m.id = req[r].msg)]_vars

\* C9 amended: as C9, but the entry's lastMessage is the sent message or a
\* message between the same two users created no earlier than it
C9_FollowedByLatestMessage ==
    /\ []MessageFirst
    /\ [][\A r \in ReqIds :
            /\ PushesMessage(r) => MessageDelivered(r)
            /\ PushesConversations(r) =>
                 ConversationsDelivered(r,
                    LAMBDA m : \/ m.id = req[r].msg
                               \/ /\ {m.sender_id, m.receiver_id} = {req[r].user, req[r].peer}
                                  /\ m.created_at >= messages[req[r].msg].createdAt)]_vars

\* a stream of the sender and a stream of the receiver each got the message
\* event of one send and, after it, that send's conversations event
C9_Witness ==
    \E r \in ReqIds, c, d \in Conns :
        /\ session[c] # session[d]
        /\ \A e \in {c, d} : \E i \in DOMAIN log[e] : \E j \in DOMAIN log[e] :
              /\ i < j
              /\ IsMessageBy(log[e][i], r) /\ log[e][i].ok
              /\ IsConvsBy(log[e][j], r) /\ log[e][j].ok

\* the message table before the insert of send invocation r
BeforeSend(r) == SubSeq(req[r].at, 1, req[r].msg - 1)

\* C10 as stated: the list a send is about to push to B has unreadCount for A
\* one higher than before the send, the list for A has unreadCount for B unchanged
C10_UnreadPlusOne ==
    \A r \in ReqIds : (req[r].kind = "send" /\ req[r].pc = "pushed") =>
        /\ \E k \in EntriesFor(req[r].convsPeer, req[r].user) :
              req[r].convsPeer[k].unreadCount
                 = UnreadFrom(BeforeSend(r), req[r].user, req[r].peer) + 1
        /\ \E k \in EntriesFor(req[r].convsUser, req[r].peer) :
              req[r].convsUser[k].unreadCount
                 = UnreadFrom(BeforeSend(r), req[r].peer, req[r].user)

\* C10 amended: the lists pushed are the lists recomputed, and a list
\* recomputed while the message table is still as the send's insert left it
\* has unreadCount one higher than before the send (B's list, peer A) or
\* unchanged (A's list, peer B)
C10_UnreadPlusOneIfUndisturbed ==
    [][\A r \in ReqIds :
          /\ (req[r].kind = "send" /\ messages = req[r].at) =>
                /\ (req[r].pc = "created" /\ req'[r].pc = "computedUser") =>
                      \E k \in EntriesFor(req'[r].convsUser, req[r].peer) :
                          req'[r].convsUser[k].unreadCount
                             = UnreadFrom(BeforeSend(r), req[r].peer, req[r].user)
                /\ (req[r].pc = "computedUser" /\ req'[r].pc = "computed") =>
                      \E k \in EntriesFor(req'[r].convsPeer, req[r].user) :
                          req'[r].convsPeer[k].unreadCount
                             = UnreadFrom(BeforeSend(r), req[r].user, req[r].peer) + 1
          /\ PushesConversations(r) =>
                /\ \A c \in OpenConns(req[r].user) :
                      Last(log'[c]).ev.conversations = req[r].convsUser
                /\ \A c \in OpenConns(req[r].peer) :
                      Last(log'[c]).ev.conversations = req[r].convsPeer]_vars

\* a second message from A to B, recomputed on an undisturbed table: the list
\* about to be pushed to B counts 2 unread from A
C10_Witness ==
    \E r \in ReqIds :
        /\ req[r].kind = "send"
        /\ req[r].pc = "pushed"
        /\ messages = req[r].at
        /\ UnreadFrom(BeforeSend(r), req[r].user, req[r].peer) = 1
        /\ \E k \in EntriesFor(req[r].convsPeer, req[r].user) :
              req[r].convsPeer[k].unreadCount = 2
        /\ OpenConns(req[r].peer) # {}


\* the step in which markAsRead invocation r runs its updateMany / returns true
MarksRead(r) == req[r].pc = "idle" /\ req'[r].kind = "read"
ReadCompletes(r) == req[r].kind = "read" /\ req[r].pc = "computed" /\ req'[r].pc = "done"

\* this step persists a new message from p to u
Persists(p, u) ==
    /\ Len(messages') = Len(messages) + 1
    /\ Last(messages').senderId = p
    /\ Last(messages').receiverId = u

\* every entry of a list recomputed for u on store carries the number of
\* unread rows from its peer to u
ReportsUnread(list, store, u) ==
    \A k \in DOMAIN list : list[k].unreadCount = UnreadFrom(store, list[k].user, u)

\* every recompute step of an invocation reports the unread rows of the table
\* it reads, and the unread rows of a pair leave 0 only when a message is persisted
RecomputeReadsTable ==
    /\ \A r \in ReqIds :
          /\ (req[r].pc \in {"created", "updated"} /\ req'[r].pc = "computedUser") =>
                ReportsUnread(req'[r].convsUser, messages, req[r].user)
          /\ (req[r].pc = "computedUser" /\ req'[r].pc = "computed") =>
                ReportsUnread(req'[r].convsPeer, messages, req[r].peer)
    /\ \A u, p \in Users :
          (UnreadFrom(messages, p, u) = 0 /\ UnreadFrom(messages', p, u) # 0) =>
              Persists(p, u)

\* C11 as stated: when markAsRead(peer) returns true the user has 0 unread
\* from the peer, every recompute reports the table's count, and the count
\* stays 0 until a new message from the peer to the user is persisted
C11_ZeroFromCompletion ==
    [][/\ \A r \in ReqIds :
             ReadCompletes(r) => UnreadFrom(messages', req[r].peer, req[r].user) = 0
       /\ RecomputeReadsTable]_vars

\* C11 amended: as C11, counted from the moment markAsRead's update takes
\* effect instead of from its return
C11_ZeroFromUpdate ==
    [][/\ \A r \in ReqIds :
             MarksRead(r) => \A u, p \in Users :
                (req'[r].pc = "updated" /\ req'[r].user = u /\ req'[r].peer = p) =>
                    UnreadFrom(messages', p, u) = 0
       /\ RecomputeReadsTable]_vars

\* a markAsRead returned true and a later send of the same user recomputed
\* that user's list: the peer whose messages were read has unreadCount 0
C11_Witness ==
    \E q, r \in ReqIds :
        /\ req[q].kind = "read" /\ req[q].pc = "done" /\ req[q].result
        /\ req[r].kind = "send" /\ req[r].pc = "computedUser"
        /\ \E i \in DOMAIN messages :
              /\ messages[i].receiverId = req[r].user
              /\ messages[i].senderId = req[r].peer
              /\ messages[i].readAt # Null
        /\ \E k \in EntriesFor(req[r].convsUser, req[r].peer) :
              req[r].convsUser[k].unreadCount = 0


\* invocation r of updateConversationsForUser holds the list its query returned
Queried(r) == req[r].kind = "update" /\ req[r].pc = "queried"

\* users u and p exchanged at least one message
Exchanged(store, u, p) ==
    \E i \in DOMAIN store :
        \/ store[i].senderId = u /\ store[i].receiverId = p
        \/ store[i].senderId = p /\ store[i].receiverId = u

\* C12: the list recompute returns has at most one entry per peer and an
\* entry for every peer the user exchanged a message with
C12_OneEntryPerPeer ==
    \A r \in ReqIds : Queried(r) =>
        LET list == req[r].convsUser
        IN  /\ \A j, k \in DOMAIN list : list[j].user = list[k].user => j = k
            /\ \A p \in StoreUsers :
                  Exchanged(messages, req[r].user, p) => EntriesFor(list, p) # {}

\* a recompute for a user with two peers, one of them with two messages
C12_Witness ==
    \E r \in ReqIds : /\ Queried(r)
                      /\ Len(req[r].convsUser) = 2
                      /\ Len(messages) = 3
                      /\ \A i \in DOMAIN messages :
                            req[r].user \in {messages[i].senderId, messages[i].receiverId}


C14_LatestFirst ==
    \A r \in ReqIds : Queried(r) =>
        LET list == req[r].convsUser
            u == req[r].user
        IN  /\ \A k \in 1..(Len(list) - 1) :
                  list[k].lastMessage.created_at >= list[k + 1].lastMessage.created_at
            /\ \A k \in DOMAIN list :
                  LET m == list[k].lastMessage
                  IN  /\ m.id \in DOMAIN messages
                      /\ m = [id |-> m.id,
                              sender_id |-> messages[m.id].senderId,
                              receiver_id |-> messages[m.id].receiverId,
                              text |-> messages[m.id].text,
                              created_at |-> messages[m.id].createdAt,
                              read_at |-> messages[m.id].readAt]
                      /\ \/ m.sender_id = u /\ m.receiver_id = list[k].user
                         \/ m.sender_id = list[k].user /\ m.receiver_id = u
                      /\ \A i \in DOMAIN messages :
                            (\/ messages[i].senderId = u /\ messages[i].receiverId = list[k].user
                             \/ messages[i].senderId = list[k].user /\ messages[i].receiverId = u)
                            => messages[i].createdAt <= m.created_at

\* a list of two entries with different times whose first entry's peer has
\* an older message as well
C14_Witness ==
    \E r \in ReqIds :
        /\ Queried(r)
        /\ Len(req[r].convsUser) = 2
        /\ req[r].convsUser[1].lastMessage.created_at > req[r].convsUser[2].lastMessage.created_at
        /\ \E i \in DOMAIN messages :
              /\ {messages[i].senderId, messages[i].receiverId}
                    = {req[r].user, req[r].convsUser[1].user}
              /\ messages[i].createdAt < req[r].convsUser[1].lastMessage.created_at


\* C15: in every step every stored message stays as it is, or its absent
\* read timestamp is set and nothing else changes
C15_ReadAtSetOnce ==
    [][\A i \in DOMAIN messages :
          /\ i \in DOMAIN messages'
          /\ \/ messages'[i] = messages[i]
             \/ /\ messages[i].readAt = Null
                /\ messages'[i].readAt # Null
                /\ messages'[i] = [messages[i] EXCEPT !.readAt = messages'[i].readAt]]_vars

\* a message was marked read, and a markAsRead that ran later found nothing
\* to update
C15_Witness ==
    /\ messages # <<>>
    /\ messages[1].readAt # Null
    /\ now > messages[1].readAt
    /\ \E q \in ReqIds : req[q].kind = "read" /\ req[q].pc = "done" /\ ~req[q].result


\* C16: in every step in which isConnected becomes true, reconnectAttempts
\* is 0 afterwards
C16_ZeroOnConnected ==
    [][(~isConnected /\ isConnected') => reconnectAttempts' = 0]_vars

\* the stream opened after failed attempts: connected, attempts back to 0
C16_Witness ==
    /\ isConnected
    /\ clientLast.op = "onopen"
    /\ clientLast.was >= 2
    /\ reconnectAttempts = 0

\* the handler that just ran met a failure with auto-reconnect on: onerror,
\* or a connect() whose EventSource construction threw
FailedAttempt ==
    /\ clientLast'.op \in {"onerror", "connectThrew", "reconnectThrew"}
    /\ autoReconnect

\* C17: each failed attempt raises the attempts by one until they are at the
\* cap of 10, they never exceed 10, and they fall only when the stream opens,
\* when the long-interval reset runs or when a new instance is made
C17_AttemptsClimbToCap ==
    /\ [](reconnectAttempts \in 0..maxReconnectAttempts)
    /\ [][/\ FailedAttempt =>
               reconnectAttempts' = IF reconnectAttempts < 10
                                    THEN reconnectAttempts + 1
                                    ELSE 10
          /\ reconnectAttempts' > reconnectAttempts =>
               reconnectAttempts' = reconnectAttempts + 1
          /\ reconnectAttempts' < reconnectAttempts =>
               clientLast'.op \in {"onopen", "reset", "none"}]_vars

\* the tenth failed attempt in a row
C17_Witness ==
    /\ clientLast.op = "onerror"
    /\ clientLast.was = 9
    /\ reconnectAttempts = 10
    /\ autoReconnect


\* min(30 s, 2 s * 1.5^(n-1)) for n = 1..10, in quarters of a millisecond
DelayTable ==
    <<8000, 12000, 18000, 27000, 40500, 60750, 91125, 120000, 120000, 120000>>

\* C18: a reconnect timeout scheduled for attempt n waits
\* min(30 s, 2 s * 1.5^(n-1)): 2 s for the first attempt, never more than
\* 30 s, never less than for the attempt before
C18_BackoffDelay ==
    /\ \A id \in DOMAIN timers : timers[id].kind = "reconnect" =>
          /\ reconnectAttempts \in 1..10
          /\ timers[id].delay = DelayTable[reconnectAttempts]
          /\ timers[id].delay <= 30000 * Ms
          /\ reconnectAttempts = 1 => timers[id].delay = 2000 * Ms
    /\ \A n \in 1..9 : Backoff(n) <= Backoff(n + 1)

\* the eighth failed attempt scheduled a reconnect after the 30 s maximum
C18_Witness ==
    /\ clientLast.op = "onerror"
    /\ reconnectAttempts = 8
    /\ reconnectTimer \in DOMAIN timers
    /\ timers[reconnectTimer].kind = "reconnect"
    /\ timers[reconnectTimer].delay = 30000 * Ms

\* C20 as stated: at most one timeout is pending, and no timeout scheduled
\* before a call of connect() is still pending after it
C20_ConnectCancelsTimer ==
    /\ Cardinality(DOMAIN timers) <= 1
    /\ \A id \in DOMAIN timers : ~timers[id].stale


\* a request for the stream starts: connect() runs, or the EventSource
\* retries by itself
AttemptStep ==
    clientLast'.op \in {"connect", "connectThrew", "reconnect", "reconnectThrew", "retry"}

\* exactly one timeout is pending, of the given kind and delay
OnePending(tm, kind, delay) ==
    /\ Cardinality(DOMAIN tm) = 1
    /\ \A id \in DOMAIN tm : tm[id].kind = kind /\ tm[id].delay = delay

\* C19: a failure with the attempts at 10 leaves exactly one timeout pending,
\* after 60 s; when it fires the attempts restart (0, then 1 for the 2 s
\* reconnect it schedules); and unless the subscriber is closed, the stream
\* stays open or connect() was never called, a request for the stream is
\* started again and again
C19_SlowRetryForever ==
    /\ [][/\ (FailedAttempt /\ reconnectAttempts = 10) =>
               /\ reconnectAttempts' = 10
               /\ OnePending(timers', "reset", 60000 * Ms)
          /\ clientLast'.op = "reset" =>
               /\ reconnectAttempts' = 1
               /\ OnePending(timers', "reconnect", 2000 * Ms)]_vars
    /\ \/ []<><<AttemptStep>>_vars
       \/ <>[](\/ ~autoReconnect
               \/ eventSource = "open"
               \/ eventSource = "null" /\ timers = << >>)

\* the long-interval reset ran after ten failed attempts and scheduled the
\* first fast reconnect
C19_Witness ==
    /\ clientLast.op = "reset"
    /\ clientLast.was = 10
    /\ reconnectAttempts = 1
    /\ autoReconnect

\* the stream the subscriber holds has not been closed
Holds == eventSource \in {"connecting", "open", "waiting"}

\* C21: connect() closes the stream it holds before it creates a new one:
\* in every reachable state at most one stream of the subscriber is not
\* closed, and that one is the stream the subscriber holds
C21_AtMostOneStream ==
    /\ sources <= 1
    /\ sources = 1 <=> Holds

\* connect() was called while a stream was open (isConnected is still set)
\* and exactly the new stream is not closed
C21_Witness ==
    /\ clientLast.op = "connect"
    /\ clientLast.src = "open"
    /\ eventSource = "connecting"
    /\ sources = 1

\* C22: disconnect() sets the flag that suppresses auto-reconnect and
\* cancels the pending reconnect timer: when it has returned no stream is
\* open and no timeout is pending, nothing but a connect() call of the
\* application creates a stream or schedules a timeout afterwards, and no
\* timeout is ever scheduled while the flag is set
C22_DisconnectIsFinal ==
    /\ [](clientLast.op = "disconnect" =>
              /\ ~autoReconnect
              /\ eventSource = "null"
              /\ sources = 0
              /\ ~isConnected
              /\ reconnectTimer = Null
              /\ timers = << >>)
    /\ [](~autoReconnect => timers = << >>)
    /\ [][(clientLast.op = "disconnect" /\
              (eventSource' # eventSource \/ sources' # sources \/ timers' # timers))
                => clientLast'.op = "connect"]_vars

\* disconnect() was called while a reconnect timeout was pending
C22_Witness ==
    /\ clientLast.op = "disconnect"
    /\ clientLast.pend # {}
    /\ clientLast.src \in {"waiting", "closed"}
    /\ timers = << >>

\* the phase of the subscriber, read off its fields: Connected once onopen
\* ran on the stream held, Connecting while that stream's request is out,
\* Reconnecting while a retry is due (by timeout or by the stream itself)
PhaseOf(source, tm) ==
    CASE source = "open" -> "Connected"
      [] source = "connecting" -> "Connecting"
      [] source = "waiting" -> "Reconnecting"
      [] OTHER -> IF tm # << >> THEN "Reconnecting" ELSE "Disconnected"

Phase == PhaseOf(eventSource, timers)

\* the phase changes of section 4.5
Listed(f, t) ==
    \/ f = "Disconnected" /\ t = "Connecting"
    \/ f = "Connecting" /\ t = "Connected"
    \/ f = "Connected" /\ t = "Reconnecting"
    \/ f = "Reconnecting" /\ t = "Connecting"
    \/ f = "Connecting" /\ t = "Reconnecting"

Connects == {"connect", "reconnect"}

\* the handlers in which the construction of the stream threw
ConnectThrew == {"connectThrew", "reconnectThrew"}

CallsOf(list, kind, arg) ==
    [i \in 1..Len(list) |-> [to |-> list[i], kind |-> kind, arg |-> arg]]

\* C24: a received `message` event is delivered to the listeners registered
\* under the sender's identity and to those registered under the receiver's
\* identity (and to no other), so the echo of a message the current user
\* sent reaches the listeners registered under the peer's identity
C24_DeliveredToBoth ==
    clientLast.op = "message" =>
        /\ calls = CallsOf(Get(messageListeners, clientLast.ev.sender_id), "message", clientLast.ev)
                     \o CallsOf(Get(messageListeners, clientLast.ev.receiver_id), "message",
                                clientLast.ev)
        /\ \A l \in Range(Get(messageListeners, clientLast.ev.receiver_id)) :
              \E i \in 1..Len(calls) : calls[i].to = l /\ calls[i].arg = clientLast.ev

\* the echo of a message a1 sent to b1 was delivered to a listener that is
\* registered under b1 only
C24_Witness ==
    /\ clientLast.op = "message"
    /\ clientLast.ev.sender_id = "a1"
    /\ clientLast.ev.receiver_id = "b1"
    /\ Get(messageListeners, "a1") = << >>
    /\ Len(Get(messageListeners, "b1")) = 1
    /\ Len(calls) = 1

\* the listener list an unsubscribe closure works on
ListOf(handle, ml, cl, sl) ==
    CASE handle.kind = "message" -> Get(ml, handle.key)
      [] handle.kind = "conversations" -> cl
      [] OTHER -> sl

\* list without its i-th element
Without(list, i) == SubSeq(list, 1, i - 1) \o SubSeq(list, i + 1, Len(list))

\* C25: unsubscribing through a returned handle removes exactly one listener
\* instance: if the handle's callback is registered (once or twice) in the
\* handle's list, the list afterwards is the list without one of its
\* registrations; every other list is unchanged
C25_RemovesExactlyOne ==
    [][clientLast'.op = "unsubscribe" =>
         LET h == clientLast'.h
             before == ListOf(h, messageListeners, conversationListeners,
                              connectionStatusListeners)
             after == ListOf(h, messageListeners', conversationListeners',
                             connectionStatusListeners')
         IN  /\ IF h.listener \in Range(before)
                THEN \E i \in 1..Len(before) :
                        before[i] = h.listener /\ after = Without(before, i)
                ELSE after = before
             /\ \A g \in Handles :
                   (g.kind # h.kind \/ g.key # h.key) =>
                       ListOf(g, messageListeners', conversationListeners',
                              connectionStatusListeners')
                         = ListOf(g, messageListeners, conversationListeners,
                                  connectionStatusListeners)]_vars

\* C26: a `conversations` event notifies every registered conversation-list
\* listener exactly once per registration, in order, with the list the event
\* carries, and the provider's conversation list is replaced by that list
C26_ConversationsReplaced ==
    clientLast.op = "conversations" =>
        /\ calls = CallsOf(conversationListeners, "conversations", clientLast.ev)
        /\ HandleConversationsUpdate \in Range(conversationListeners) =>
              conversations = clientLast.ev.conversations

\* the second list arrived while the provider's listener and another
\* listener were registered
C26_Witness ==
    /\ clientLast.op = "conversations"
    /\ clientLast.ev.conversations = 2
    /\ Len(conversationListeners) = 2
    /\ Range(conversationListeners) = {1, 2}
    /\ Len(calls) = 2
    /\ conversations = 2

Duplicate(x, y) ==
    \/ HasId(x) /\ HasId(y) /\ x.id = y.id
    \/ ContentMatch(x, y)

\* no two entries of one bucket of the cache are duplicates
NoDuplicates(map) ==
    \A k \in DOMAIN map :
        \A i, j \in 1..Len(map[k]) : i < j => ~Duplicate(map[k][i], map[k][j])

\* C28: after any sequence of cache inserts (optimistic appends, loaded or
\* confirmed copies, pushed message events) no two entries of one peer bucket
\* share a server id or have the same sender, receiver and text with
\* creation times less than 10 seconds apart
C28_NoDuplicateEntries ==
    /\ NoDuplicates(thisConversations)
    /\ NoDuplicates(stateMessages)

\* the optimistic entry of send call i is in the bucket of its peer
OptimisticCached(i) ==
    \E k \in 1..Len(Get(thisConversations, sends[i].peer)) :
        LET e == thisConversations[sends[i].peer][k]
        IN  ~HasId(e) /\ e.sender_id = userId /\ e.receiver_id = sends[i].peer
                      /\ e.text = sends[i].text

Failed(e) == "failed" \in DOMAIN e /\ e.failed = TRUE

\* the optimistic entries of call i that the bucket of its peer holds
EntriesOf(i) ==
    LET bucket == Get(thisConversations, sends[i].peer)
    IN  {k \in DOMAIN bucket :
            /\ ~HasId(bucket[k])
            /\ bucket[k].sender_id = userId
            /\ bucket[k].receiver_id = sends[i].peer
            /\ bucket[k].text = sends[i].text}

\* C30: when the request of a send fails, the failure is surfaced to the
\* caller and the optimistic entry of the call stays in the bucket of the
\* peer marked as failed; it is never removed
C30_FailedEntryMarked ==
    \A i \in DOMAIN sends :
        sends[i].pc \in {"failed", "threw"} =>
            \E k \in EntriesOf(i) : Failed(Get(thisConversations, sends[i].peer)[k])

\* list s is a prefix of list t
IsPrefix(s, t) == Len(s) <= Len(t) /\ SubSeq(t, 1, Len(s)) = s

\* every bucket of the map is a prefix of its bucket in the next map
Extended(map, next) == \A k \in DOMAIN map : IsPrefix(map[k], Get(next, k))

\* C31: the message cache is append-only: every step of the client (load,
\* send, message event) leaves the previous contents of every peer's bucket
\* as a prefix of the new contents
C31_AppendOnly ==
    [][/\ Extended(stateMessages, stateMessages')
       /\ Extended(thisConversations, thisConversations')]_vars

\* the conversations push of markAsRead invocation r appends, on every
\* writable stream of the user, the list the invocation recomputed, with an
\* entry for the peer whose unreadCount satisfies Count
ReadDelivered(r, Count(_)) ==
    \A c \in OpenConns(req[r].user) :
        LET a == Last(log'[c])
        IN  /\ Len(log'[c]) = Len(log[c]) + 1
            /\ IsConvsBy(a, r)
            /\ a.ok
            /\ a.ev.conversations = req[r].convsUser
            /\ \E k \in EntriesFor(a.ev.conversations, req[r].peer) :
                  Count(a.ev.conversations[k].unreadCount)

\* C32 as stated: when markAsRead(A) of B marked a message, every open
\* Connection of B is pushed a conversations event whose entry for A has
\* unreadCount 0
C32_PushedZero ==
    [][\A r \in ReqIds : ReadCompletes(r) => ReadDelivered(r, LAMBDA n : n = 0)]_vars

\* C32 amended: the event is pushed to every open Connection of B and carries
\* the list recomputed after the update; its entry for A counts the messages
\* from A to B that are unread when the list is recomputed, which is 0 right
\* after the update and rises only with a message A sends to B
C32_PushedRecomputed ==
    [][/\ \A r \in ReqIds :
             /\ ReadCompletes(r) => ReadDelivered(r, LAMBDA n : n \in Nat)
             /\ (MarksRead(r) /\ req'[r].pc = "updated") =>
                   UnreadFrom(messages', req'[r].peer, req'[r].user) = 0
             /\ (req[r].kind = "read" /\ req[r].pc = "updated"
                   /\ req'[r].pc = "computedUser") =>
                   \E k \in EntriesFor(req'[r].convsUser, req[r].peer) :
                       req'[r].convsUser[k].unreadCount
                          = UnreadFrom(messages, req[r].peer, req[r].user)
       /\ \A u, p \in Users :
             (UnreadFrom(messages, p, u) = 0 /\ UnreadFrom(messages', p, u) # 0) =>
                 Persists(p, u)]_vars

\* a markAsRead that marked a message has returned and a stream of its user
\* holds the conversations event it pushed, with unreadCount 0 for the peer
C32_Witness ==
    \E r \in ReqIds, c \in Conns :
        /\ req[r].kind = "read" /\ req[r].pc = "done" /\ req[r].result
        /\ \E i \in DOMAIN log[c] :
              /\ IsConvsBy(log[c][i], r) /\ log[c][i].ok
              /\ \E k \in DOMAIN log[c][i].ev.conversations :
                    log[c][i].ev.conversations[k].unreadCount = 0

\* the positions of the events / `message` events invocation r wrote to a log
EventsBy(lg, r) == {i \in DOMAIN lg : lg[i].by = r}
MessagesBy(lg, r) == {i \in DOMAIN lg : IsMessageBy(lg[i], r)}

\* C33: a send completes successfully with its message stored whether or not
\* the receiver has a Connection; its `message` event is written only by its
\* own push, to the Connections registered at that moment; a Connection
\* opened later starts with `connected` alone and the completed send writes
\* nothing to it
C33_OfflineNotQueued ==
    [][\A r \in ReqIds :
          /\ PushesConversations(r) =>
                /\ req'[r].result
                /\ \E i \in DOMAIN messages :
                      /\ messages[i].id = req[r].msg
                      /\ messages[i].senderId = req[r].user
                      /\ messages[i].receiverId = req[r].peer
          /\ \A c \in Conns :
                /\ MessagesBy(log'[c], r) # MessagesBy(log[c], r) =>
                      /\ PushesMessage(r)
                      /\ c \in Bucket(connectedClients, req[r].user)
                                 \cup Bucket(connectedClients, req[r].peer)
                /\ req[r].pc = "done" => EventsBy(log'[c], r) = EventsBy(log[c], r)
                /\ (phase[c] = "auth" /\ phase'[c] = "open") =>
                      /\ Len(log'[c]) = 1
                      /\ log'[c][1].ev.type = "connected"]_vars

\* a send to b1 completed while b1 had no Connection, and the Connection b1
\* opened afterwards holds no event of that send
C33_Witness ==
    \E r \in ReqIds, c \in Conns :
        /\ req[r].kind = "send" /\ req[r].pc = "done" /\ req[r].result
        /\ \E i \in DOMAIN messages : messages[i].id = r /\ messages[i].receiverId = "b1"
        /\ session[c] = "b1" /\ phase[c] = "open"
        /\ Len(log[c]) >= 1
        /\ EventsBy(log[c], r) = {}
        /\ \A d \in Conns \ {c} : session[d] # "b1"

\* C34: markAsRead(peer) of a user without unread message from that peer
\* returns false in the step of its update, leaves the message table, the
\* registry and every stream as they are, and never writes an event; an
\* invocation goes on to recompute and push only when it marked a message
C34_NothingToMark ==
    /\ [](\A r \in ReqIds : (req[r].kind = "read" /\ req[r].pc = "done" /\ ~req[r].result) =>
              \A c \in Conns : EventsBy(log[c], r) = {})
    /\ [][\A r \in ReqIds : MarksRead(r) =>
             /\ req'[r].pc = "updated" =>
                   UnreadFrom(messages, req'[r].peer, req'[r].user) > 0
             /\ req'[r].pc # "updated" =>
                   /\ req'[r].pc = "done"
                   /\ ~req'[r].result
                   /\ messages' = messages
                   /\ log' = log
                   /\ connectedClients' = connectedClients]_vars

\* a markAsRead returned false while the table holds an unread message (of
\* another direction) and a stream is registered
C34_Witness ==
    \E r \in ReqIds :
        /\ req[r].kind = "read" /\ req[r].pc = "done" /\ ~req[r].result
        /\ \E i \in DOMAIN messages : messages[i].readAt = Null
        /\ Registered(connectedClients) # {}

\* the positions of the conversations events a stream accepted
ConvsIn(lg) == {i \in DOMAIN lg : lg[i].ev.type = "conversations" /\ lg[i].ok}

\* no server action is in progress
AllCompleted == \A r \in ReqIds : req[r].pc \in {"idle", "done"}

\* C35: once all sends and mark-reads have completed, the last conversations
\* event on every Connection that stayed open is the list recompute returns
\* for its user on the final message table
C35_LastIsFinal ==
    AllCompleted =>
        \A u \in Users : \A c \in OpenConns(u) :
            \A i \in ConvsIn(log[c]) :
                (\A j \in ConvsIn(log[c]) : j <= i) =>
                    log[c][i].ev.conversations
                        \in updateConversationsForUserInternal(messages, u)

\* C36: auto-reconnect is active on every stream the subscriber holds, also
\* on one opened by connect() after disconnect(): a transport error on the
\* stream leaves a reconnect attempt scheduled
C36_ReconnectsAfterReopen ==
    [][clientLast'.op = "onerror" => (autoReconnect' /\ reconnectTimer' # Null)]_vars

\* C37: a `message` event whose server id differs from the id of every
\* cached entry is appended to the bucket unless an id-less (optimistic)
\* entry matches its content; a cached server-confirmed message with the
\* same sender, receiver and text within the window does not suppress it
C37_DistinctNotCollapsed ==
    [][cacheLast'.op = "event" =>
          LET newMessage == Head(inbox)
              bucket == Get(stateMessages, currentConversation)
          IN  (/\ HasId(newMessage)
               /\ \A k \in DOMAIN bucket : HasId(bucket[k]) => bucket[k].id # newMessage.id
               /\ ~\E k \in DOMAIN bucket :
                      ~HasId(bucket[k]) /\ ContentMatch(bucket[k], newMessage))
                 => Get(stateMessages', currentConversation) = Append(bucket, newMessage)]_vars

\* C38: a message that arrived by event while a load of its conversation was
\* in flight (the entries the bucket holds when the load completes: the
\* load's start emptied it) is still in the bucket after the load completes
C38_EventSurvivesLoad ==
    [][\A i \in DOMAIN loads :
          (loads[i].pc = "read" /\ loads'[i].pc = "done") =>
              LET before == Get(stateMessages, loads[i].peer)
                  after == Get(stateMessages', loads[i].peer)
              IN  \A k \in DOMAIN before : \E j \in DOMAIN after : after[j] = before[k]]_vars

\* the listeners registered in the subscriber
RegisteredListeners ==
    UNION {Range(messageListeners[k]) : k \in DOMAIN messageListeners}
       \cup Range(conversationListeners) \cup Range(connectionStatusListeners)

\* C39: when disconnect() returns no listener is registered, and a handler
\* invokes only listeners registered when it starts (onConnectionStatus: the
\* one it registers); a listener registered before a disconnect is therefore
\* not invoked after it unless the application registers it again
C39_ListenersRemoved ==
    /\ [](clientLast.op = "disconnect" => RegisteredListeners = {})
    /\ [][\A k \in DOMAIN calls' :
             \/ calls'[k].to \in RegisteredListeners
             \/ clientLast'.op = "onConnectionStatus" /\ calls'[k].to = clientLast'.h.listener]_vars
    /\ [][(RegisteredListeners = {} /\ clientLast'.op # "onConnectionStatus") =>
             calls' = << >>]_vars

\* after a disconnect and a fresh connect, a conversations event arrived and
\* invoked nobody although the application still holds the closure of a
\* conversation-list listener it registered before the disconnect
C39_Witness ==
    /\ ~autoReconnect
    /\ clientLast.op = "conversations"
    /\ calls = << >>
    /\ \E h \in handles : h.kind = "conversations"

TypeOK ==
    /\ DOMAIN connectedClients \subseteq Users
    /\ \A u \in DOMAIN connectedClients : connectedClients[u] \subseteq Conns

====
